---- MODULE Spec2Model ----
(***************************************************************************)
(* A model of the igor package: the packed-experiment loader               *)
(* (igor/packed.py), the binary-wave loader (igor/binarywave.py) and the   *)
(* byte utilities (igor/util.py).                                          *)
(*                                                                         *)
(* Bytes are integers 0..255, buffers are sequences of bytes, and a file   *)
(* is the sequence of its bytes together with a read position.  Python     *)
(* strings that come out of a buffer (folder names, dictionary keys) are   *)
(* kept as the sequence of their character codes.                          *)
(***************************************************************************)
EXTENDS Integers, Sequences, FiniteSets, TLC

VARIABLES
    call,               \* which function runs: "packed", "wave" or "checksum"
    native,             \* sys.byteorder of the platform: "<" or ">"
    isPath,             \* TRUE when the filename argument has no 'read' attribute
    strict,             \* the strict argument
    ignore_unknown,     \* the ignore_unknown argument of packed.load
    input,              \* how the file was written (kept to state the claims)
    stream,             \* the bytes of the file
    pos,                \* bytes of the file consumed so far
    reads,              \* every f.read issued: <<requested, returned>> byte counts
    handle,             \* "none", "open" or "closed": the object f
    structOrder,        \* byte order of each module-level Structure
    byte_order,         \* packed.load local; "None" until detected
    initial_byte_order, \* packed.load local
    records,            \* packed.load local: the record list
    filesystem,         \* packed.load local: the folder tree
    dir_stack,          \* packed.load local: the stack of open folders
    ri,                 \* index of the next record of the reduction loop
    w,                  \* binarywave.load locals
    pc,                 \* position in the running function
    err,                \* the exception in flight or raised ("none" if none)
    ret                 \* <<>> while nothing was returned, else the returned tuple

vars == <<call, native, isPath, strict, ignore_unknown, input, stream, pos,
          reads, handle, structOrder, byte_order, initial_byte_order, records,
          filesystem, dir_stack, ri, w, pc, err, ret>>

(* The arguments and the file, which no step changes, and the locals of the
   two loaders. *)
args == <<call, native, isPath, strict, ignore_unknown, input, stream>>
packedLocals == <<byte_order, initial_byte_order, records, filesystem, dir_stack, ri>>

---------------------------------------------------------------------------
(* Bounds of the model. *)

MaxTreeRecs == 4
MaxScanRecs == 2
MaxPnts == 3

---------------------------------------------------------------------------
(* Sequences and bytes. *)

Min(a, b) == IF a < b THEN a ELSE b

Zeros(n) == [i \in 1..n |-> 0]

RECURSIVE Reverse(_)
Reverse(s) == IF s = <<>> THEN <<>> ELSE Append(Reverse(Tail(s)), Head(s))

RECURSIVE Flatten(_)
Flatten(ss) == IF ss = <<>> THEN <<>> ELSE Head(ss) \o Flatten(Tail(ss))

RECURSIVE BitAnd(_, _)
BitAnd(a, b) ==
    IF a = 0 \/ b = 0 THEN 0
    ELSE (IF a % 2 = 1 /\ b % 2 = 1 THEN 1 ELSE 0) + 2 * BitAnd(a \div 2, b \div 2)

RECURSIVE BigEndianUnsigned(_)
BigEndianUnsigned(bs) ==
    IF bs = <<>> THEN 0
    ELSE 256 * BigEndianUnsigned(SubSeq(bs, 1, Len(bs) - 1)) + bs[Len(bs)]

(* struct's standard sizes (no alignment) under the '=', '<' and '>' prefixes;
   'P' is replaced by 'L' before the format reaches struct. *)
CalcSize(code) ==
    CASE code \in {"c", "b", "B"} -> 1
      [] code \in {"h", "H"} -> 2
      [] code \in {"l", "L", "f", "P"} -> 4
      [] code = "d" -> 8

IsSignedCode(code) == code \in {"b", "h", "l"}

(* One integer field decoded as struct does: '=' is the platform's order.
   The most significant byte carries the sign of a signed code. *)
UnpackInt(order, code, bs) ==
    LET o == IF order = "=" THEN native ELSE order
        be == IF o = ">" THEN bs ELSE Reverse(bs)
        top == IF IsSignedCode(code) /\ be[1] >= 128 THEN be[1] - 256 ELSE be[1]
    IN  top * (256 ^ (Len(be) - 1)) + BigEndianUnsigned(Tail(be))

(* The bytes a writer of byte order o stores for the value v of a field. *)
RECURSIVE LittleEndianBytes(_, _)
LittleEndianBytes(v, n) ==
    IF n = 0 THEN <<>> ELSE <<v % 256>> \o LittleEndianBytes(v \div 256, n - 1)

PackInt(o, code, v) ==
    LET n == CalcSize(code)
        u == IF v < 0 THEN v + 256 ^ n ELSE v
    IN  IF o = "<" THEN LittleEndianBytes(u, n) ELSE Reverse(LittleEndianBytes(u, n))

---------------------------------------------------------------------------
(* igor/util.py *)

need_to_reorder_bytes(version) == BitAnd(version % 65536, 255) = 0

byte_order_of(needToReorderBytes) ==
    LET little_endian == IF needToReorderBytes THEN native # "<" ELSE native = "<"
    IN  IF little_endian THEN "<" ELSE ">"

---------------------------------------------------------------------------
(* igor/struct.py: the module-level Structure objects.  Each keeps the byte
   order of its format string; set_byte_order rebuilds the format unless it
   already starts with the requested order. *)

StructNames ==
    {"PackedFileRecordHeader", "BinHeaderCommon", "BinHeader1", "BinHeader2",
     "BinHeader3", "BinHeader5", "WaveHeader2", "WaveHeader5"}

(* A set_byte_order that does nothing once the format has an order other
   than '='. *)
SetByteOrder_OnlyOnce(so, name, order) ==
    IF so[name] # "=" \/ so[name] = order THEN so ELSE [so EXCEPT ![name] = order]

SetByteOrder(so, name, order) ==
    IF so[name] = order THEN so ELSE [so EXCEPT ![name] = order]

PackedFileRecordHeaderFormat == <<"H", "h", "l">>

RECURSIVE FormatSize(_)
FormatSize(fmt) == IF fmt = <<>> THEN 0 ELSE CalcSize(Head(fmt)) + FormatSize(Tail(fmt))

PackedFileRecordHeaderSize == FormatSize(PackedFileRecordHeaderFormat)

(* PackedFileRecordHeader.unpack_from(b) for a buffer of the full size. *)
UnpackRecordHeader(order, b) ==
    [recordType   |-> UnpackInt(order, "H", SubSeq(b, 1, 2)),
     version      |-> UnpackInt(order, "h", SubSeq(b, 3, 4)),
     numDataBytes |-> UnpackInt(order, "l", SubSeq(b, 5, 8))]

---------------------------------------------------------------------------
(* The file object: f.read(n) returns at most n bytes, and everything that is
   left when n is negative. *)

ReadCount(n, length, at) == IF n < 0 THEN length - at ELSE Min(n, length - at)

ReadBytes(n, s, at) == SubSeq(s, at + 1, at + ReadCount(n, Len(s), at))

(* No value yet: of a result, of a local. *)
NoValue == <<>>

(* The value of w during a packed.load call. *)
NoWave == <<>>

---------------------------------------------------------------------------
(* igor/record: the type table and the record classes. *)

PACKEDRECTYPE_MASK == 32767
SUPERCEDED_MASK == 32768

RECORD_TYPE(code) ==
    CASE code = 0 -> "UnusedRecord"
      [] code = 1 -> "VariablesRecord"
      [] code = 2 -> "HistoryRecord"
      [] code = 3 -> "WaveRecord"
      [] code = 4 -> "RecreationRecord"
      [] code = 5 -> "ProcedureRecord"
      [] code = 6 -> "UnusedRecord"
      [] code = 7 -> "GetHistoryRecord"
      [] code = 8 -> "PackedFileRecord"
      [] code = 9 -> "FolderStartRecord"
      [] code = 10 -> "FolderEndRecord"
      [] OTHER -> "UnknownRecord"

(* The constructors that decode their payload and can raise on it:
   VariablesRecord unpacks its structures, WaveRecord runs the wave loader.
   Record, UnknownRecord, UnusedRecord and TextRecord only store or copy. *)
DecodingClasses == {"VariablesRecord", "WaveRecord"}

(* TextRecord.text: '\r\n' and then '\r' become '\n'. *)
RECURSIVE TextOf(_)
TextOf(data) ==
    IF data = <<>> THEN <<>>
    ELSE IF Head(data) = 13
         THEN IF Len(data) >= 2 /\ data[2] = 10
              THEN <<10>> \o TextOf(SubSeq(data, 3, Len(data)))
              ELSE <<10>> \o TextOf(Tail(data))
         ELSE <<Head(data)>> \o TextOf(Tail(data))

(* FolderStartRecord.null_terminated_text: the text up to the first NUL. *)
RECURSIVE UpToNull(_)
UpToNull(text) ==
    IF text = <<>> \/ Head(text) = 0 THEN <<>>
    ELSE <<Head(text)>> \o UpToNull(Tail(text))

NullTerminatedText(data) == UpToNull(TextOf(data))

---------------------------------------------------------------------------
(* igor/binarywave.py: the header layouts.  A layout is the sequence of its
   fields; Structure.set_byte_order derives the format, and with it the size,
   from the fields' codes and counts. *)

Field(n, c, k) == [name |-> n, code |-> c, count |-> k]

MAXDIMS == 4
MAX_WAVE_NAME2 == 18
MAX_WAVE_NAME5 == 31
MAX_UNIT_CHARS == 3

BinHeaderCommon == << Field("version", "h", 1) >>

BinHeader1 ==
    << Field("version", "h", 1), Field("wfmSize", "l", 1), Field("checksum", "h", 1) >>

BinHeader2 ==
    << Field("version", "h", 1), Field("wfmSize", "l", 1), Field("noteSize", "l", 1),
       Field("pictSize", "l", 1), Field("checksum", "h", 1) >>

BinHeader3 ==
    << Field("version", "h", 1), Field("wfmSize", "h", 1), Field("noteSize", "l", 1),
       Field("formulaSize", "l", 1), Field("pictSize", "l", 1),
       Field("checksum", "h", 1) >>

BinHeader5 ==
    << Field("version", "h", 1), Field("checksum", "h", 1), Field("wfmSize", "l", 1),
       Field("formulaSize", "l", 1), Field("noteSize", "l", 1),
       Field("dataEUnitsSize", "l", 1), Field("dimEUnitsSize", "l", MAXDIMS),
       Field("dimLabelsSize", "l", MAXDIMS), Field("sIndicesSize", "l", 1),
       Field("optionsSize1", "l", 1), Field("optionsSize2", "l", 1) >>

WaveHeader2 ==
    << Field("type", "h", 1), Field("next", "P", 1),
       Field("bname", "c", MAX_WAVE_NAME2 + 2), Field("whVersion", "h", 1),
       Field("srcFldr", "h", 1), Field("fileName", "P", 1),
       Field("dataUnits", "c", MAX_UNIT_CHARS + 1),
       Field("xUnits", "c", MAX_UNIT_CHARS + 1), Field("npnts", "l", 1),
       Field("aModified", "h", 1), Field("hsA", "d", 1), Field("hsB", "d", 1),
       Field("wModified", "h", 1), Field("swModified", "h", 1),
       Field("fsValid", "h", 1), Field("topFullScale", "d", 1),
       Field("botFullScale", "d", 1), Field("useBits", "c", 1),
       Field("kindBits", "c", 1), Field("formula", "P", 1), Field("depID", "l", 1),
       Field("creationDate", "L", 1), Field("wUnused", "c", 2),
       Field("modDate", "L", 1), Field("waveNoteH", "P", 1),
       Field("wData", "f", 4) >>

WaveHeader5 ==
    << Field("next", "P", 1), Field("creationDate", "L", 1), Field("modDate", "L", 1),
       Field("npnts", "l", 1), Field("type", "h", 1), Field("dLock", "h", 1),
       Field("whpad1", "c", 6), Field("whVersion", "h", 1),
       Field("bname", "c", MAX_WAVE_NAME5 + 1), Field("whpad2", "l", 1),
       Field("dFolder", "P", 1), Field("nDim", "l", MAXDIMS),
       Field("sfA", "d", MAXDIMS), Field("sfB", "d", MAXDIMS),
       Field("dataUnits", "c", MAX_UNIT_CHARS + 1),
       Field("dimUnits", "c", MAXDIMS * (MAX_UNIT_CHARS + 1)),
       Field("fsValid", "h", 1), Field("whpad3", "h", 1),
       Field("topFullScale", "d", 1), Field("botFullScale", "d", 1),
       Field("dataEUnits", "P", 1), Field("dimEUnits", "P", MAXDIMS),
       Field("dimLabels", "P", MAXDIMS), Field("waveNoteH", "P", 1),
       Field("whUnused", "l", 16), Field("aModified", "h", 1),
       Field("wModified", "h", 1), Field("swModified", "h", 1),
       Field("useBits", "c", 1), Field("kindBits", "c", 1), Field("formula", "P", 1),
       Field("depID", "l", 1), Field("whpad4", "h", 1), Field("srcFldr", "h", 1),
       Field("fileName", "P", 1), Field("sIndices", "P", 1), Field("wData", "f", 1) >>

(* Structure.size: the size of the format of the fields. *)
RECURSIVE StructSize(_)
StructSize(fields) ==
    IF fields = <<>> THEN 0
    ELSE CalcSize(Head(fields).code) * Head(fields).count + StructSize(Tail(fields))

RECURSIVE FieldOffset(_, _)
FieldOffset(fields, name) ==
    IF Head(fields).name = name THEN 0
    ELSE CalcSize(Head(fields).code) * Head(fields).count + FieldOffset(Tail(fields), name)

FieldCode(fields, name) ==
    (CHOOSE i \in 1..Len(fields) : fields[i].name = name)

HasField(fields, name) == \E i \in 1..Len(fields) : fields[i].name = name

IntegerCodes == {"b", "B", "h", "H", "l", "L", "P"}

(* A float or double decoded in the byte order: the value is identified by
   its IEEE 754 bytes, most significant first. *)
UnpackFloat(order, bs) ==
    LET o == IF order = "=" THEN native ELSE order
    IN  IF o = ">" THEN bs ELSE Reverse(bs)

(* The k-th item (from 0) of a field of the structure unpacked from buf at
   offset base: an integer, the byte of a character, or a float. *)
UnpackItem(order, fields, name, k, buf, base) ==
    LET code == fields[FieldCode(fields, name)].code
        at == base + FieldOffset(fields, name) + k * CalcSize(code)
        bs == SubSeq(buf, at + 1, at + CalcSize(code))
    IN  CASE code \in IntegerCodes -> UnpackInt(order, code, bs)
          [] code = "c" -> bs[1]
          [] OTHER -> UnpackFloat(order, bs)

UnpackField(order, fields, name, buf, base) ==
    UnpackItem(order, fields, name, 0, buf, base)

(* The field, or 0 for a layout that has no such field. *)
UnpackOptional(order, fields, name, buf, base) ==
    IF HasField(fields, name) THEN UnpackField(order, fields, name, buf, base) ELSE 0

---------------------------------------------------------------------------
(* igor/util.py: checksum and assert_null. *)

(* The i-th (from 0) 16-bit signed integer of the buffer in the byte order. *)
ShortAt(buffer, order, i) == UnpackInt(order, "h", SubSeq(buffer, 2 * i + 1, 2 * i + 2))

(* The sum of the shorts lo..hi, halving the range. *)
RECURSIVE SumRange(_, _, _, _)
SumRange(buffer, order, lo, hi) ==
    IF lo > hi THEN 0
    ELSE IF lo = hi THEN ShortAt(buffer, order, lo)
    ELSE SumRange(buffer, order, lo, (lo + hi) \div 2)
         + SumRange(buffer, order, (lo + hi) \div 2 + 1, hi)

(* numpy.ndarray(shape=numbytes/2, dtype=int16 in the byte order).sum() *)
SumShorts(buffer, order, n) == SumRange(buffer, order, 0, n - 1)

(* x > 2**31, written with numbers below 2**31. *)
Above2Pow31(x) ==
    x \div 2 > 1073741824 \/ (x \div 2 = 1073741824 /\ x % 2 = 1)

Low16_Byte(x) == x % 256

(* oldcksum & 0xffff of a Python integer, negative ones included. *)
Low16(x) == x % 65536

(* checksum(buffer, byte_order, oldcksum, numbytes), for a buffer that holds
   the numbytes/2 shorts.  The sum of the shorts of a header stays far below
   2**31, and so below 2**32, where `%= 2**32` changes nothing. *)
Checksum(buffer, order, oldcksum, numbytes) ==
    LET x == oldcksum + SumShorts(buffer, order, numbytes \div 2)
        rolled == IF Above2Pow31(x) THEN x - 1073741824 - 1073741824 ELSE x
    IN  Low16(rolled)

(* numpy refuses a buffer that does not hold the requested array. *)
BufferTooSmall(buffer, itemsize, count) == Len(buffer) < itemsize * count

(* `buffer and ord(max(buffer)) != 0` *)
NotNull(buffer) == buffer # <<>> /\ \E i \in 1..Len(buffer) : buffer[i] # 0

(* assert_null: raises on a non-zero buffer when strict, warns otherwise. *)
AssertNullRaises(buffer, isStrict) == NotNull(buffer) /\ isStrict

---------------------------------------------------------------------------
(* igor/binarywave.py: load. *)

TypeCodes == {0, 1, 2, 3, 4, 5, 8, 9, 16, 17, 32, 33, 72, 73, 80, 81, 96, 97}

(* numpy.dtype(TYPE_TABLE[code]).itemsize *)
ItemSize(code) ==
    CASE code \in {8, 72} -> 1
      [] code \in {9, 16, 73, 80} -> 2
      [] code \in {2, 17, 32, 81, 96} -> 4
      [] code \in {3, 4, 33, 97} -> 8
      [] code \in {1, 5} -> 16

SupportedVersions == {1, 2, 3, 5}

BinStructName_Version2(version) == "BinHeader2"

(* _version_structs: bin *)
BinStructName(version) ==
    CASE version = 1 -> "BinHeader1"
      [] version = 2 -> "BinHeader2"
      [] version = 3 -> "BinHeader3"
      [] version = 5 -> "BinHeader5"

WaveStructName(version) == IF version = 5 THEN "WaveHeader5" ELSE "WaveHeader2"

Layout(name) ==
    CASE name = "BinHeaderCommon" -> BinHeaderCommon
      [] name = "BinHeader1" -> BinHeader1
      [] name = "BinHeader2" -> BinHeader2
      [] name = "BinHeader3" -> BinHeader3
      [] name = "BinHeader5" -> BinHeader5
      [] name = "WaveHeader2" -> WaveHeader2
      [] name = "WaveHeader5" -> WaveHeader5

BinSize(version) == StructSize(Layout(BinStructName(version)))
WaveSize(version) == StructSize(Layout(WaveStructName(version)))

(* _version_structs: the size of the checksum region. *)
CheckSumSize(version) ==
    IF version = 5 THEN BinSize(version) + WaveSize(version) - 4
    ELSE BinSize(version) + WaveSize(version)

(* The size of the wData field of the wave header. *)
TailSize(version) == IF version = 5 THEN 4 ELSE 16

---------------------------------------------------------------------------
(* The wave files the loader is run on.  A file is written from a
   description: the version, the byte order, the type code, the number of
   points, the sample bytes, the dimensions, the note and the string
   indices; the checksum field is set so that the checksum region sums to
   zero. *)

(* buf with the bytes bs at offset at. *)
Place(buf, at, bs) ==
    SubSeq(buf, 1, at) \o bs \o SubSeq(buf, at + Len(bs) + 1, Len(buf))

(* assigns: a sequence of <<field, item, value>>; a field the layout does not
   have is skipped. *)
RECURSIVE PlaceAll(_, _, _, _, _)
PlaceAll(buf, o, fields, base, assigns) ==
    IF assigns = <<>> THEN buf
    ELSE LET a == Head(assigns)
             code == fields[FieldCode(fields, a[1])].code
             at == base + FieldOffset(fields, a[1]) + a[2] * CalcSize(code)
         IN  IF HasField(fields, a[1])
             THEN PlaceAll(Place(buf, at, PackInt(o, code, a[3])), o, fields, base,
                           Tail(assigns))
             ELSE PlaceAll(buf, o, fields, base, Tail(assigns))

Bytes1To(n) == [i \in 1..n |-> i]

(* Items of the given size, written most significant byte first in bs, as a
   writer of byte order o stores them. *)
RECURSIVE ItemsInOrder(_, _, _)
ItemsInOrder(o, bs, size) ==
    IF Len(bs) < size THEN bs
    ELSE (IF o = "<" THEN Reverse(SubSeq(bs, 1, size)) ELSE SubSeq(bs, 1, size))
         \o ItemsInOrder(o, SubSeq(bs, size + 1, Len(bs)), size)

Faults == {"none", "checksum", "padding", "size", "truncated", "no wData"}

(* The optional sections of a version 3 or 5 file other than the note and
   the string-index table: all empty, or each of a length of its own. *)
NoSections ==
    [formula |-> <<>>, dataEUnits |-> <<>>,
     dimEUnits |-> [k \in 1..MAXDIMS |-> <<>>],
     dimLabels |-> [k \in 1..MAXDIMS |-> <<>>]]

AllSections ==
    [formula |-> <<120>>, dataEUnits |-> <<109, 86, 32>>,
     dimEUnits |-> [k \in 1..MAXDIMS |-> [i \in 1..(3 + k) |-> 96 + i]],
     dimLabels |-> [k \in 1..MAXDIMS |-> [i \in 1..(7 + k) |-> IF i = 3 THEN 0 ELSE 64 + i]]]

(* The bytes of the file of description d written in byte order o; d.samples
   holds the samples most significant byte first. *)
WaveBytes(o, d) ==
    LET v == d.version
        bin == Layout(BinStructName(v))
        wave == Layout(WaveStructName(v))
        tail == TailSize(v)
        sections == IF "sections" \in DOMAIN d THEN d.sections ELSE NoSections
        declared == Len(d.samples) + (IF d.fault = "size" THEN 4 ELSE 0)
        wfmSize == IF v = 5 THEN WaveSize(v) - tail + declared ELSE WaveSize(v) + declared
        stored == ItemsInOrder(o, d.samples,
                               IF d.type # 0 /\ d.type \in TypeCodes
                               THEN ItemSize(d.type) ELSE 1)
        inHeader == SubSeq(stored \o Zeros(tail), 1, tail)
        rest == SubSeq(stored, tail + 1, Len(stored))
        pad == IF d.fault = "padding" THEN Place(Zeros(16), 3, <<1>>) ELSE Zeros(16)
        blank == Zeros(BinSize(v) + WaveSize(v))
        bin0 == PlaceAll(blank, o, bin, 0,
                    << <<"version", 0, v>>, <<"wfmSize", 0, wfmSize>>,
                       <<"noteSize", 0, Len(d.note)>>,
                       <<"sIndicesSize", 0, Len(d.sIndices)>>,
                       <<"formulaSize", 0, Len(sections.formula)>>,
                       <<"dataEUnitsSize", 0, Len(sections.dataEUnits)>> >>
                    \o [k \in 1..MAXDIMS |->
                           <<"dimEUnitsSize", k - 1, Len(sections.dimEUnits[k])>>]
                    \o [k \in 1..MAXDIMS |->
                           <<"dimLabelsSize", k - 1, Len(sections.dimLabels[k])>>])
        wave0 == PlaceAll(bin0, o, wave, BinSize(v),
                    << <<"type", 0, d.type>>, <<"npnts", 0, d.npnts>> >>
                    \o [k \in 1..Len(d.nDim) |-> <<"nDim", k - 1, d.nDim[k]>>])
        filled == Place(wave0, BinSize(v) + WaveSize(v) - tail, inHeader)
        sum == SumShorts(filled, o, CheckSumSize(v) \div 2)
        field == (IF d.fault = "checksum" THEN 1 - sum ELSE 0 - sum) % 65536
        header == Place(filled, FieldOffset(bin, "checksum"), PackInt(o, "H", field))
        after == CASE v = 1 -> <<>>
                   [] v = 2 -> pad \o d.note
                   [] v = 3 -> pad \o d.note \o sections.formula
                   [] v = 5 -> sections.formula \o d.note \o sections.dataEUnits
                               \o Flatten(sections.dimEUnits)
                               \o Flatten(sections.dimLabels) \o d.sIndices
        all == header \o rest \o after
    IN  CASE d.fault = "truncated" -> SubSeq(all, 1, Len(header) - 1)
          [] d.fault = "no wData" -> SubSeq(header, 1, Len(header) - tail)
          [] OTHER -> all

(* A file whose version field is not one of the supported versions. *)
OtherVersionBytes(o, version) == PackInt(o, "h", version) \o Zeros(6)

Described(v, type, npnts, samples, nDim, note, sIndices, fault) ==
    [version |-> v, type |-> type, npnts |-> npnts, samples |-> samples, nDim |-> nDim,
     note |-> note, sIndices |-> sIndices, fault |-> fault]

(* Numeric waves of 0..MaxPnts points of float32, float64 and a type code
   that is not in TYPE_TABLE. *)
NumericWaves(v) ==
    { Described(v, type, n,
                Bytes1To(n * (IF type \in TypeCodes THEN ItemSize(type) ELSE 1)),
                <<n, 0, 0, 0>>, <<32, 110>>, <<>>, "none") :
        n \in 0..MaxPnts, type \in {2, 4, 7} }

(* The smallest valid file: version 1, float32, no points. *)
MinimalWave(o) ==
    WaveBytes(o, Described(1, 2, 0, <<>>, <<0, 0, 0, 0>>, <<>>, <<>>, "none"))

(* A text wave of two strings of k letters each. *)
TextWave(v, o, k) ==
    Described(v, 0, 2, [i \in 1..(2 * k) |-> 96 + i], <<2, 0, 0, 0>>, <<>>,
              PackInt(o, "l", k) \o PackInt(o, "l", 2 * k), "none")

(* A text wave of the strings 'abcd' and '': two equal offsets. *)
EmptyStringWave(v, o) ==
    Described(v, 0, 2, <<97, 98, 99, 100>>, <<2, 0, 0, 0>>, <<>>,
              PackInt(o, "l", 4) \o PackInt(o, "l", 4), "none")

(* A text wave over 'abcd' whose table holds the two given offsets. *)
IndexedWave(v, o, first, second) ==
    Described(v, 0, 2, <<97, 98, 99, 100>>, <<2, 0, 0, 0>>, <<>>,
              PackInt(o, "l", first) \o PackInt(o, "l", second), "none")

(* Tables whose second offset is lower than the first. *)
DecreasingWaves(v, o) == {IndexedWave(v, o, 3, 1), IndexedWave(v, o, 2, 0)}

(* Waves with every optional section: float64 waves of 0 and 2 points with a
   note of two bytes, and a text wave without a note. *)
SectionedWaves(v, o) ==
    { d @@ [sections |-> AllSections] :
        d \in {x \in NumericWaves(v) : x.type = 4 /\ x.npnts \in {0, 2}}
               \cup {TextWave(v, o, 3)} }

(* A text wave of two strings of three letters laid out as one row of two
   columns. *)
MatrixTextWave(v, o) == [TextWave(v, o, 3) EXCEPT !.nDim = <<1, 2, 0, 0>>]

TextWaves(v, o) ==
    {TextWave(v, o, k) : k \in {1, 3}} \cup {EmptyStringWave(v, o)}
        \cup DecreasingWaves(v, o) \cup {MatrixTextWave(v, o)}


(* A loop that does not stop at the empty read. *)
AtEnd_Never(b) == FALSE

(* `if not b: break` *)
AtEnd(b) == b = <<>>

(* A detection that is repeated on every header with a version. *)
DetectsOrder_EveryHeader(header, bo) == header.version # 0

(* `if header['version'] and not byte_order` *)
DetectsOrder(header, bo) == header.version # 0 /\ bo = "None"

(* A lookup that keeps the superceded bit in the code. *)
RecordTypeOf_Unmasked(header) == RECORD_TYPE(header.recordType)

(* _RECORD_TYPE.get(header['recordType'] & PACKEDRECTYPE_MASK, _UnknownRecord) *)
RecordTypeOf(header) == RECORD_TYPE(BitAnd(header.recordType, PACKEDRECTYPE_MASK))

(* A strict mode that lets the unused marker through. *)
Rejected_UnknownOnly(record_type, ignore) ==
    record_type = "UnknownRecord" /\ ~ignore

(* `record_type in [_UnknownRecord, _UnusedRecord] and not ignore_unknown` *)
Rejected(record_type, ignore) ==
    record_type \in {"UnknownRecord", "UnusedRecord"} /\ ~ignore

(* What is known of the constructors of the decoding classes.  A wave record
   hands its payload to binarywave.load, which raises on a payload too short
   for the smallest header pair and returns for the smallest valid file; a
   variables record unpacks the version from the first two bytes. *)
MinWaveSize == BinSize(1) + WaveSize(1)

CannotDecode(record_type, data) ==
    \/ record_type = "WaveRecord" /\ Len(data) < MinWaveSize
    \/ record_type = "VariablesRecord" /\ Len(data) < 2

MustDecode(record_type, data) ==
    record_type = "WaveRecord" /\ data \in {MinimalWave("<"), MinimalWave(">")}

(* One turn of the `while True` loop.  decodes: whether the constructor of a
   decoding class accepts this payload. *)
ScanRecord(decodes) ==
    LET b == ReadBytes(PackedFileRecordHeaderSize, stream, pos)
        pos1 == pos + Len(b)
        reads1 == Append(reads, <<PackedFileRecordHeaderSize, Len(b)>>)
        so1 == SetByteOrder(structOrder, "PackedFileRecordHeader", initial_byte_order)
    IN  IF AtEnd(b)
        THEN \* `if not b: break`
             /\ decodes
             /\ pos' = pos1 /\ reads' = reads1
             /\ pc' = "finally"
             /\ UNCHANGED <<structOrder, byte_order, initial_byte_order, records, err>>
        ELSE IF Len(b) < PackedFileRecordHeaderSize
        THEN \* unpack_from raises struct.error on a short buffer
             /\ decodes
             /\ pos' = pos1 /\ reads' = reads1
             /\ structOrder' = so1
             /\ err' = "struct.error" /\ pc' = "finally"
             /\ UNCHANGED <<byte_order, initial_byte_order, records>>
        ELSE LET h0 == UnpackRecordHeader(so1["PackedFileRecordHeader"], b)
                 detect == DetectsOrder(h0, byte_order)
                 need_to_reorder == need_to_reorder_bytes(h0.version)
                 bo == IF detect THEN byte_order_of(need_to_reorder) ELSE byte_order
                 ibo == IF detect THEN bo ELSE initial_byte_order
                 so2 == IF detect /\ need_to_reorder
                        THEN SetByteOrder(so1, "PackedFileRecordHeader", bo) ELSE so1
                 header == IF detect /\ need_to_reorder
                           THEN UnpackRecordHeader(so2["PackedFileRecordHeader"], b)
                           ELSE h0
                 data == ReadBytes(header.numDataBytes, stream, pos1)
                 record_type == RecordTypeOf(header)
             IN  /\ pos' = pos1 + Len(data)
                 /\ reads' = Append(reads1, <<header.numDataBytes, Len(data)>>)
                 /\ structOrder' = so2
                 /\ byte_order' = bo
                 /\ initial_byte_order' = ibo
                 /\ IF Rejected(record_type, ignore_unknown)
                    THEN /\ decodes
                         /\ err' = "KeyError" /\ pc' = "finally"
                         /\ UNCHANGED records
                    ELSE IF ~decodes
                    THEN /\ record_type \in DecodingClasses
                         /\ ~MustDecode(record_type, data)
                         /\ err' = "DecoderError" /\ pc' = "finally"
                         /\ UNCHANGED records
                    ELSE /\ ~CannotDecode(record_type, data)
                         /\ records' = Append(records,
                                [cls |-> record_type, header |-> header,
                                 data |-> data, byte_order |-> bo])
                         /\ UNCHANGED <<pc, err>>

Open ==
    /\ pc = "open"
    /\ handle' = IF isPath THEN "open" ELSE handle
    /\ pc' = IF call = "packed" THEN "scan" ELSE "probe"
    /\ UNCHANGED <<args, w, pos,
                   reads, structOrder, byte_order, initial_byte_order, records,
                   filesystem, dir_stack, ri, err, ret>>

Scan ==
    /\ pc = "scan"
    /\ \E decodes \in BOOLEAN : ScanRecord(decodes)
    /\ UNCHANGED <<args, w,
                   handle, filesystem, dir_stack, ri, ret>>

(* The finally clause of either loader, and what follows it. *)
ClosedAfter_Always(h, path) == "closed"

(* `if not hasattr(filename, 'read'): f.close()` *)
ClosedAfter(h, path) == IF path THEN "closed" ELSE h

AfterFinally_Swallowed(e, c) == IF c = "packed" THEN "tree" ELSE "return"

(* An exception leaves the function from the finally clause; without one the
   statements after the try statement run. *)
AfterFinally(e, c) ==
    IF e # "none" THEN "raised" ELSE IF c = "packed" THEN "tree" ELSE "return"

Finally ==
    /\ pc = "finally"
    /\ handle' = ClosedAfter(handle, isPath)
    /\ pc' = AfterFinally(err, call)
    /\ UNCHANGED <<args, w, pos,
                   reads, structOrder, byte_order, initial_byte_order, records,
                   filesystem, dir_stack, ri, err, ret>>

---------------------------------------------------------------------------
(* igor/packed.py: load, the folder tree.  A node of the tree is named by its
   path, the keys from 'root' down to it; filesystem maps every path of the
   tree to what is stored there: a dict (a folder) or a list of records, given
   by their index in the record list.  An entry of dir_stack is the name of the
   folder; its node is the one at the path the stack spells, since a folder is
   only ever replaced in the node on top of the stack. *)

ROOT == <<114, 111, 111, 116>>
VARIABLES_KEY == <<58, 118, 97, 114, 105, 97, 98, 108, 101, 115>>
WAVES_KEY == <<58, 119, 97, 118, 101, 115>>

Dict == [kind |-> "dict", items |-> <<>>]
List(items) == [kind |-> "list", items |-> items]

IsUnder(p, q) == Len(q) > Len(p) /\ SubSeq(q, 1, Len(p)) = p

(* node[key] = value, where node is the one at path p. *)
SetItem(fs, p, key, value) ==
    LET child == Append(p, key)
        keep == {q \in DOMAIN fs : q # child /\ ~IsUnder(child, q)}
    IN  [q \in keep \cup {child} |-> IF q = child THEN value ELSE fs[q]]

ReduceRecord ==
    LET record == records[ri]
        cwd == dir_stack
    IN  IF dir_stack = <<>>
        THEN \* dir_stack[-1] on the empty list
             /\ err' = "IndexError" /\ pc' = "raised"
             /\ UNCHANGED <<filesystem, dir_stack, ri>>
        ELSE IF record.cls = "FolderStartRecord"
        THEN LET name == NullTerminatedText(record.data)
             IN  /\ filesystem' = SetItem(filesystem, cwd, name, Dict)
                 /\ dir_stack' = Append(dir_stack, name)
                 /\ ri' = ri + 1
                 /\ UNCHANGED <<pc, err>>
        ELSE IF record.cls = "FolderEndRecord"
        THEN /\ dir_stack' = SubSeq(dir_stack, 1, Len(dir_stack) - 1)
             /\ ri' = ri + 1
             /\ UNCHANGED <<filesystem, pc, err>>
        ELSE IF record.cls \in {"VariablesRecord", "WaveRecord"}
        THEN LET filename == IF record.cls = "VariablesRecord"
                             THEN VARIABLES_KEY ELSE WAVES_KEY
                 p == Append(cwd, filename)
             IN  IF p \in DOMAIN filesystem
                 THEN IF filesystem[p].kind = "list"
                      THEN /\ filesystem' = [filesystem EXCEPT
                                               ![p] = List(Append(@.items, ri))]
                           /\ ri' = ri + 1
                           /\ UNCHANGED <<dir_stack, pc, err>>
                      ELSE \* a dict has no append
                           /\ err' = "AttributeError" /\ pc' = "raised"
                           /\ UNCHANGED <<filesystem, dir_stack, ri>>
                 ELSE /\ filesystem' = SetItem(filesystem, cwd, filename, List(<<ri>>))
                      /\ ri' = ri + 1
                      /\ UNCHANGED <<dir_stack, pc, err>>
        ELSE /\ ri' = ri + 1
             /\ UNCHANGED <<filesystem, dir_stack, pc, err>>

Reduce ==
    /\ pc = "tree"
    /\ ri <= Len(records)
    /\ ReduceRecord
    /\ UNCHANGED <<args, w, pos,
                   reads, handle, structOrder, byte_order, initial_byte_order,
                   records, ret>>

ReturnPacked ==
    /\ pc = "tree"
    /\ ri > Len(records)
    /\ ret' = <<records, filesystem>>
    /\ pc' = "returned"
    /\ UNCHANGED <<args, w, pos,
                   reads, handle, structOrder, byte_order, initial_byte_order,
                   records, filesystem, dir_stack, ri, err>>

NextPacked == Open \/ Scan \/ Finally \/ Reduce \/ ReturnPacked

---------------------------------------------------------------------------
(* igor/binarywave.py: load, the steps. *)

(* The locals of binarywave.load before its first statement. *)
WaveFresh ==
    [ b |-> <<>>, version |-> 0, byteOrder |-> "None", c |-> -1,
      bin_info |-> NoValue, wave_info |-> NoValue, waveDataSize |-> 0,
      shape |-> <<>>, itemsize |-> 1, data |-> NoValue ]

(* The dictionary of a structure unpacked from buf at offset base: an array
   field as the sequence of its items. *)
UnpackDict(order, fields, buf, base) ==
    [ n \in {fields[i].name : i \in 1..Len(fields)} |->
        LET fld == fields[FieldCode(fields, n)]
        IN  IF fld.count = 1 THEN UnpackField(order, fields, n, buf, base)
            ELSE [k \in 1..fld.count |-> UnpackItem(order, fields, n, k - 1, buf, base)] ]

RECURSIVE Product(_)
Product(s) == IF s = <<>> THEN 1 ELSE Head(s) * Product(Tail(s))

RECURSIVE Positive(_)
Positive(s) ==
    IF s = <<>> THEN <<>>
    ELSE IF Head(s) > 0 THEN <<Head(s)>> \o Positive(Tail(s)) ELSE Positive(Tail(s))

(* `[n for n in wave_info['nDim'] if n > 0] or (0,)` *)
DimShape(nDim) == IF Positive(nDim) = <<>> THEN <<0>> ELSE Positive(nDim)

(* numpy.ndarray(shape, dtype, buffer, order='F'): the error it raises, or
   "none". *)
NdarrayError(shape, itemsize, buffer) ==
    IF \E i \in 1..Len(shape) : shape[i] < 0 THEN "ValueError:negative dimensions"
    ELSE IF BufferTooSmall(buffer, itemsize, Product(shape)) THEN "TypeError:buffer is too small"
    ELSE "none"

(* An array whose dtype is that of the machine, whatever the file's order. *)
Ndarray_NativeOrder(shape, itemsize, order, buffer) ==
    [ kind |-> "array", shape |-> shape, itemsize |-> itemsize, order |-> native,
      bytes |-> SubSeq(buffer, 1, itemsize * Product(shape)) ]

Ndarray(shape, itemsize, order, buffer) ==
    [ kind |-> "array", shape |-> shape, itemsize |-> itemsize, order |-> order,
      bytes |-> SubSeq(buffer, 1, itemsize * Product(shape)) ]

(* The elements of a returned array: those of a numeric array of a real type
   are the items of its buffer read in the byte order of its dtype, each
   identified by its bytes most significant first. *)
ArrayValues(a) ==
    IF a.kind = "strings" THEN a.strings
    ELSE [ i \in 1..(Len(a.bytes) \div a.itemsize) |->
             UnpackFloat(a.order, SubSeq(a.bytes, (i - 1) * a.itemsize + 1, i * a.itemsize)) ]

(* str.strip(): without the leading and trailing whitespace. *)
Whitespace == {9, 10, 11, 12, 13, 32}

RECURSIVE LStrip(_)
LStrip(s) == IF s # <<>> /\ Head(s) \in Whitespace THEN LStrip(Tail(s)) ELSE s

Strip(s) == Reverse(LStrip(Reverse(LStrip(s))))

(* `[L for L in labels.split(chr(0)) if len(L) > 0]` *)
RECURSIVE SplitNull(_, _)
SplitNull(s, cur) ==
    IF s = <<>> THEN (IF cur = <<>> THEN <<>> ELSE <<cur>>)
    ELSE IF Head(s) = 0
         THEN (IF cur = <<>> THEN <<>> ELSE <<cur>>) \o SplitNull(Tail(s), <<>>)
    ELSE SplitNull(Tail(s), Append(cur, Head(s)))

(* Consecutive f.read(size) calls from offset at: the chunks returned. *)
RECURSIVE ReadSeq(_, _, _)
ReadSeq(sizes, s, at) ==
    IF sizes = <<>> THEN <<>>
    ELSE LET chunk == ReadBytes(Head(sizes), s, at)
         IN  <<chunk>> \o ReadSeq(Tail(sizes), s, at + Len(chunk))

ReadLog(sizes, chunks) == [i \in 1..Len(sizes) |-> <<sizes[i], Len(chunks[i])>>]

(* binarywave.load, lines 261-271: the version probe, the byte order and the
   layouts of the version. *)
Probe ==
    /\ pc = "probe"
    /\ LET so1 == SetByteOrder(structOrder, "BinHeaderCommon", "=")
           size == StructSize(BinHeaderCommon)
           b == ReadBytes(size, stream, pos)
           first == UnpackField(IF so1["BinHeaderCommon"] = "=" THEN native
                                ELSE so1["BinHeaderCommon"],
                                BinHeaderCommon, "version", b, 0)
           needToReorderBytes == need_to_reorder_bytes(first)
           byteOrder == byte_order_of(needToReorderBytes)
           so2 == IF needToReorderBytes
                  THEN SetByteOrder(so1, "BinHeaderCommon", byteOrder) ELSE so1
           version == IF needToReorderBytes
                      THEN UnpackField(byteOrder, BinHeaderCommon, "version", b, 0)
                      ELSE first
       IN  /\ pos' = pos + Len(b)
           /\ reads' = Append(reads, <<size, Len(b)>>)
           /\ IF Len(b) < size
              THEN /\ err' = "struct.error"
                   /\ pc' = "finally"
                   /\ structOrder' = so1
                   /\ w' = [w EXCEPT !.b = b]
              ELSE IF version \notin SupportedVersions
              THEN /\ err' = "ValueError:version"
                   /\ pc' = "finally"
                   /\ structOrder' = so2
                   /\ w' = [w EXCEPT !.b = b, !.version = version, !.byteOrder = byteOrder]
              ELSE /\ err' = err
                   /\ pc' = "header"
                   /\ structOrder' =
                        SetByteOrder(SetByteOrder(so2, BinStructName(version), byteOrder),
                                     WaveStructName(version), byteOrder)
                   /\ w' = [w EXCEPT !.b = b, !.version = version, !.byteOrder = byteOrder]
    /\ UNCHANGED <<args, packedLocals, handle, ret>>

(* Lines 273-278: the rest of the two headers and the checksum. *)
ChecksumFails_Never(c) == FALSE

ChecksumFails(c) == c # 0

Header ==
    /\ pc = "header"
    /\ LET size == BinSize(w.version) + WaveSize(w.version) - StructSize(BinHeaderCommon)
           more == ReadBytes(size, stream, pos)
           b == w.b \o more
           checkSumSize == CheckSumSize(w.version)
           c == Checksum(b, w.byteOrder, 0, checkSumSize)
       IN  /\ pos' = pos + Len(more)
           /\ reads' = Append(reads, <<size, Len(more)>>)
           /\ IF BufferTooSmall(b, 2, checkSumSize \div 2)
              THEN /\ err' = "TypeError:buffer is too small"
                   /\ pc' = "finally"
                   /\ w' = [w EXCEPT !.b = b]
              ELSE IF ChecksumFails(c)
              THEN /\ err' = "ValueError:checksum"
                   /\ pc' = "finally"
                   /\ w' = [w EXCEPT !.b = b, !.c = c]
              ELSE /\ err' = err
                   /\ pc' = "unpack"
                   /\ w' = [w EXCEPT !.b = b, !.c = c]
    /\ UNCHANGED <<args, packedLocals, handle, structOrder, ret>>

(* Lines 279-306: the two dictionaries, the size of the sample data, the
   shape and the element type.  Structure.unpack_from pads a short wave
   header with zeros and then requires npnts to be 0. *)
Unpack ==
    /\ pc = "unpack"
    /\ LET version == w.version
           bin == Layout(BinStructName(version))
           wave == Layout(WaveStructName(version))
           short == Len(w.b) - BinSize(version) < WaveSize(version)
           padded == IF short THEN w.b \o Zeros(BinSize(version) + WaveSize(version) - Len(w.b))
                     ELSE w.b
           bin_info == UnpackDict(structOrder[BinStructName(version)], bin, w.b, 0)
           wave_info == UnpackDict(structOrder[WaveStructName(version)], wave, padded,
                                   BinSize(version))
           waveDataSize == IF version \in {1, 2, 3}
                           THEN bin_info["wfmSize"] - WaveSize(version)
                           ELSE bin_info["wfmSize"] - (WaveSize(version) - TailSize(version))
           shape == IF wave_info["type"] = 0 THEN <<waveDataSize>>
                    ELSE IF version = 5 THEN DimShape(wave_info["nDim"])
                    ELSE <<wave_info["npnts"]>>
           typed == wave_info["type"] # 0 /\
                    (wave_info["type"] \in TypeCodes \/ wave_info["npnts"] # 0)
           itemsize == IF typed /\ wave_info["type"] \in TypeCodes
                       THEN ItemSize(wave_info["type"]) ELSE 1
           failure ==
               IF short /\ wave_info["npnts"] # 0 THEN "AssertionError:npnts"
               ELSE IF typed /\ wave_info["type"] \notin TypeCodes THEN "KeyError:type"
               ELSE IF typed /\ waveDataSize # wave_info["npnts"] * itemsize
                    THEN "AssertionError:size"
               ELSE "none"
       IN  /\ err' = failure
           /\ pc' = IF failure = "none" THEN "data" ELSE "finally"
           /\ w' = [w EXCEPT !.bin_info = bin_info,
                             !.wave_info = IF short /\ wave_info["npnts"] # 0
                                           THEN NoValue ELSE wave_info,
                             !.waveDataSize = waveDataSize, !.shape = shape,
                             !.itemsize = itemsize]
    /\ UNCHANGED <<args, packedLocals, pos, reads, handle, structOrder, ret>>

(* Lines 307-317: the sample bytes and the array over them. *)
Data ==
    /\ pc = "data"
    /\ LET tail == TailSize(w.version)
           none == w.wave_info["npnts"] = 0
           more == IF none THEN <<>> ELSE ReadBytes(w.waveDataSize - tail, stream, pos)
           data_b == IF none THEN <<>>
                     ELSE SubSeq(w.b, Len(w.b) - tail + 1, Len(w.b)) \o more
           failure == NdarrayError(w.shape, w.itemsize, data_b)
       IN  /\ pos' = pos + Len(more)
           /\ reads' = IF none THEN reads
                       ELSE Append(reads, <<w.waveDataSize - tail, Len(more)>>)
           /\ err' = failure
           /\ pc' = IF failure = "none" THEN "trailer" ELSE "finally"
           /\ w' = IF failure = "none"
                   THEN [w EXCEPT !.data = Ndarray(w.shape, w.itemsize, w.byteOrder, data_b)]
                   ELSE w
    /\ UNCHANGED <<args, packedLocals, handle, structOrder, ret>>

(* Lines 319-385: the sections after the data.  Versions 2 and 3 read 16
   bytes of padding first and stop there when assert_null raises. *)
PaddingFails_Always(buffer, isStrict) == NotNull(buffer)

PaddingFails(buffer, isStrict) == AssertNullRaises(buffer, isStrict)

(* A version 5 reader that takes the note before the formula. *)
TrailerSizes_NoteFirst(version, bin_info, type) ==
    CASE version = 1 -> <<>>
      [] version = 2 -> <<16, bin_info["noteSize"]>>
      [] version = 3 -> <<16, bin_info["noteSize"], bin_info["formulaSize"]>>
      [] version = 5 ->
            <<bin_info["noteSize"], bin_info["formulaSize"], bin_info["dataEUnitsSize"]>>
            \o bin_info["dimEUnitsSize"] \o bin_info["dimLabelsSize"]
            \o (IF type = 0 THEN <<bin_info["sIndicesSize"]>> ELSE <<>>)

TrailerSizes(version, bin_info, type) ==
    CASE version = 1 -> <<>>
      [] version = 2 -> <<16, bin_info["noteSize"]>>
      [] version = 3 -> <<16, bin_info["noteSize"], bin_info["formulaSize"]>>
      [] version = 5 ->
            <<bin_info["formulaSize"], bin_info["noteSize"], bin_info["dataEUnitsSize"]>>
            \o bin_info["dimEUnitsSize"] \o bin_info["dimLabelsSize"]
            \o (IF type = 0 THEN <<bin_info["sIndicesSize"]>> ELSE <<>>)

TrailerInfo(version, chunks, type) ==
    CASE version = 1 -> <<>>
      [] version = 2 -> [note |-> Strip(chunks[2])]
      [] version = 3 -> [note |-> Strip(chunks[2]), formula |-> Strip(chunks[3])]
      [] version = 5 ->
            [formula |-> Strip(chunks[1]), note |-> Strip(chunks[2]),
             dataEUnits |-> Strip(chunks[3]),
             dimEUnits |-> [k \in 1..MAXDIMS |-> Strip(chunks[3 + k])],
             dimLabels |-> [k \in 1..MAXDIMS |-> SplitNull(chunks[3 + MAXDIMS + k], <<>>)]]
            @@ (IF type = 0 THEN [sIndices |-> chunks[4 + 2 * MAXDIMS]]
                ELSE <<>>)

Trailer ==
    /\ pc = "trailer"
    /\ LET version == w.version
           type == w.wave_info["type"]
           sizes == TrailerSizes(version, w.bin_info, type)
           all == ReadSeq(sizes, stream, pos)
           stops == version \in {2, 3} /\ PaddingFails(all[1], strict)
           done == IF stops THEN 1 ELSE Len(sizes)
           chunks == SubSeq(all, 1, done)
       IN  /\ pos' = pos + Len(Flatten(chunks))
           /\ reads' = reads \o ReadLog(SubSeq(sizes, 1, done), chunks)
           /\ err' = IF stops THEN "ValueError:padding" ELSE err
           /\ pc' = IF stops THEN "finally" ELSE "text"
           /\ w' = IF stops THEN w
                   ELSE [w EXCEPT !.bin_info = TrailerInfo(version, chunks, type) @@ @]
    /\ UNCHANGED <<args, packedLocals, handle, structOrder, ret>>

(* Lines 387-401: a text wave is split into strings at the bytes of sIndices.
   data[start:offset] is cut at the end of the data; chr() refuses the
   negative int8 of a byte above 127. *)
RECURSIVE SplitStrings(_, _, _, _)
SplitStrings(sIndices, bytes, start, strings) ==
    IF sIndices = <<>> THEN [failure |-> "none", strings |-> strings]
    ELSE LET offset == Head(sIndices)
             string == SubSeq(bytes, start + 1, Min(offset, Len(bytes)))
         IN  IF offset > start
             THEN IF \E i \in 1..Len(string) : string[i] > 127
                  THEN [failure |-> "ValueError:chr", strings |-> strings]
                  ELSE SplitStrings(Tail(sIndices), bytes, offset, Append(strings, string))
             ELSE IF offset # 0
                  THEN [failure |-> "AssertionError:offset", strings |-> strings]
                  ELSE SplitStrings(Tail(sIndices), bytes, start, strings)

Text ==
    /\ pc = "text"
    /\ IF w.wave_info["type"] # 0
       THEN /\ pc' = "finally"
            /\ UNCHANGED <<w, err>>
       ELSE IF "sIndices" \notin DOMAIN w.bin_info
       THEN /\ pc' = "finally"
            /\ err' = "KeyError:sIndices"
            /\ w' = w
       ELSE LET split == SplitStrings(w.bin_info["sIndices"], w.data.bytes, 0, <<>>)
                shape == DimShape(w.wave_info["nDim"])
                failure == IF split.failure # "none" THEN split.failure
                           ELSE IF Product(shape) # Len(split.strings)
                                THEN "ValueError:reshape"
                           ELSE "none"
            IN  /\ pc' = "finally"
                /\ err' = failure
                /\ w' = IF split.failure # "none" THEN w
                        ELSE [w EXCEPT !.data = [kind |-> "strings",
                                                 shape |-> <<Len(split.strings)>>,
                                                 strings |-> split.strings]]
    /\ UNCHANGED <<args, packedLocals, pos, reads, handle, structOrder, ret>>

(* Line 406. *)
ReturnWave ==
    /\ pc = "return"
    /\ ret' = <<w.data, w.bin_info, w.wave_info>>
    /\ pc' = "returned"
    /\ UNCHANGED <<args, packedLocals, w, pos, reads, handle, structOrder, err>>


---------------------------------------------------------------------------
(* The files the loaders are run on.  A packed file is written record by
   record in one byte order; cut bytes are then missing from its end. *)

RecordBytes(o, r) ==
    PackInt(o, "H", r.recordType) \o PackInt(o, "h", r.version)
        \o PackInt(o, "l", r.numDataBytes) \o r.data

Written(recs, o, cut) ==
    LET all == Flatten([i \in 1..Len(recs) |-> RecordBytes(o, recs[i])])
    IN  SubSeq(all, 1, Len(all) - Min(cut, Len(all)))

Rec(t, v, d) == [recordType |-> t, version |-> v, numDataBytes |-> Len(d), data |-> d]

(* The smallest variables payload: a version 1 header that declares no
   variables. *)
MinimalVariables(o) == PackInt(o, "h", 1) \o Zeros(6)

FolderRecords(o) ==
    { Rec(9, 0, <<65, 0>>),          \* FolderStart 'A'
      Rec(9, 0, WAVES_KEY),          \* FolderStart ':waves'
      Rec(10, 0, <<>>),              \* FolderEnd
      Rec(3, 0, MinimalWave(o)),     \* Wave
      Rec(1, 0, MinimalVariables(o)),\* Variables
      Rec(2, 0, <<13, 10>>) }        \* History

ScanRecords(o) ==
    { Rec(11, 0, <<7>>),             \* not in the table
      Rec(32779, 1, <<>>),           \* not in the table, superceded
      Rec(0, 1, <<>>),               \* unused
      Rec(3, 1, <<>>),               \* Wave, no payload
      Rec(3, 0, MinimalWave(o)),     \* Wave
      Rec(32771, 0, MinimalWave(o)), \* Wave, superceded
      Rec(1, 256, MinimalVariables(o)), \* Variables, version with a zero low byte
      Rec(9, 0, <<65, 0>>),          \* FolderStart 'A'
      Rec(10, 0, <<>>) }             \* FolderEnd

Cuts == {0, 1, 3}

SeqsUpTo(S, n) == UNION {[1..k -> S] : k \in 0..n}

InitPackedOn(recs, o, cut) ==
    /\ call = "packed"
    /\ strict = TRUE
    /\ input = [recs |-> recs, order |-> o, cut |-> cut]
    /\ stream = Written(recs, o, cut)
    /\ pos = 0
    /\ reads = <<>>
    /\ handle = IF isPath THEN "none" ELSE "open"
    /\ structOrder = [s \in StructNames |-> "="]
    /\ byte_order = "None"
    /\ initial_byte_order = "="
    /\ records = <<>>
    /\ filesystem = (<<ROOT>> :> Dict)
    /\ dir_stack = <<ROOT>>
    /\ ri = 1
    /\ w = NoWave
    /\ pc = "open"
    /\ err = "none"
    /\ ret = NoValue

InitTree ==
    /\ native \in {"<", ">"}
    /\ isPath \in BOOLEAN
    /\ ignore_unknown = TRUE
    /\ \E recs \in SeqsUpTo(FolderRecords(native), MaxTreeRecs) : InitPackedOn(recs, native, 0)

InitScan ==
    /\ native \in {"<", ">"}
    /\ isPath \in BOOLEAN
    /\ ignore_unknown \in BOOLEAN
    /\ \E o \in {"<", ">"}, cut \in Cuts :
       \E recs \in SeqsUpTo(ScanRecords(o), MaxScanRecs) :
         /\ cut <= Len(Written(recs, o, 0))
         /\ InitPackedOn(recs, o, cut)

SpecTree == InitTree /\ [][NextPacked]_vars
SpecScan == InitScan /\ [][NextPacked]_vars

(* The wave files: every numeric and text wave of every supported version,
   three of the numeric waves with each fault, and files of other versions. *)
FaultyWaves(v) ==
    { [d EXCEPT !.fault = f] :
        d \in {x \in NumericWaves(v) : x.type = 4 /\ x.npnts \in {0, 1, 2}},
        f \in Faults \ {"none"} }

(* Version 5 float64 waves of two points whose nDim has more than one
   positive entry, next to each other or with a zero between them. *)
DimWaves ==
    { Described(5, 4, 2, Bytes1To(2 * ItemSize(4)), nDim, <<32, 110>>, <<>>, "none") :
        nDim \in { <<1, 2, 0, 0>>, <<2, 1, 0, 0>>, <<1, 0, 2, 0>>, <<2, 0, 0, 1>> } }

(* Waves of a type code that is not in TYPE_TABLE whose wfmSize declares four
   bytes more than npnts items. *)
FormulaWaves(v) ==
    { Described(v, 7, n, Bytes1To(n), <<n, 0, 0, 0>>, <<32, 110>>, <<>>, "size") :
        n \in {0, 1} }

OtherVersions == {0, 4, 7}

WaveFiles(o) ==
    UNION { NumericWaves(v) \cup TextWaves(v, o) \cup FaultyWaves(v) \cup FormulaWaves(v) :
            v \in SupportedVersions }
    \cup UNION { SectionedWaves(v, o) : v \in {3, 5} }
    \cup DimWaves
    \cup { Described(v, 0, 0, <<>>, <<>>, <<>>, <<>>, "version") : v \in OtherVersions }
    \cup { Described(0, 0, 0, <<>>, <<>>, <<>>, <<>>, "empty") }

FileBytes(o, d) ==
    CASE d.fault = "version" -> OtherVersionBytes(o, d.version)
      [] d.fault = "empty" -> <<>>
      [] OTHER -> WaveBytes(o, d)

InitWave ==
    /\ call = "wave"
    /\ native \in {"<", ">"}
    /\ isPath \in BOOLEAN
    /\ strict \in BOOLEAN
    /\ ignore_unknown = TRUE
    /\ \E o \in {"<", ">"} : \E d \in WaveFiles(o) :
         /\ input = [d |-> d, order |-> o]
         /\ stream = FileBytes(o, d)
    /\ pos = 0
    /\ reads = <<>>
    /\ handle = IF isPath THEN "none" ELSE "open"
    /\ structOrder = [s \in StructNames |-> "="]
    /\ byte_order = "None"
    /\ initial_byte_order = "="
    /\ records = <<>>
    /\ filesystem = (<<ROOT>> :> Dict)
    /\ dir_stack = <<ROOT>>
    /\ ri = 1
    /\ w = WaveFresh
    /\ pc = "open"
    /\ err = "none"
    /\ ret = NoValue

NextWave == Open \/ Probe \/ Header \/ Unpack \/ Data \/ Trailer \/ Text \/ Finally \/ ReturnWave

SpecWave == InitWave /\ [][NextWave]_vars

(* The same wave written in the other byte order, loaded by a second call
   once the first has returned; input.first keeps what the first returned.
   The layouts keep the byte order the first call left them in. *)
OtherOrder(o) == IF o = "<" THEN ">" ELSE "<"

Rewritten(d) == [d EXCEPT !.sIndices = ItemsInOrder("<", @, CalcSize("l"))]

Again ==
    /\ call = "wave"
    /\ pc = "returned"
    /\ "first" \notin DOMAIN input
    /\ input' = [d |-> Rewritten(input.d), order |-> OtherOrder(input.order), first |-> ret]
    /\ stream' = FileBytes(input'.order, input'.d)
    /\ pos' = 0
    /\ reads' = <<>>
    /\ handle' = IF isPath THEN "none" ELSE "open"
    /\ w' = WaveFresh
    /\ pc' = "open"
    /\ err' = "none"
    /\ ret' = NoValue
    /\ UNCHANGED <<call, native, isPath, strict, ignore_unknown, packedLocals, structOrder>>

NextBoth == NextWave \/ Again
SpecBoth == InitWave /\ [][NextBoth]_vars

(* Three calls in one process.  The first call leaves the module-level
   layouts in the byte orders it set; the second call runs on them; the third
   call is the second one made first in a fresh process, every layout in the
   '=' it is constructed with.  input.first keeps how the second call ended,
   input.left the byte orders it started from. *)
HistoryWaves(o) ==
    { d \in WaveFiles(o) :
        \/ d.fault = "version" /\ d.version = 4
        \/ /\ d.fault \in {"none", "checksum", "no wData"}
           /\ d.type = 4 /\ d.npnts = 2 /\ d.nDim = <<2, 0, 0, 0>>
           /\ "sections" \notin DOMAIN d }
    \cup {TextWave(5, o, 3)}

HistoryRecords == {Rec(11, 0, <<7>>), Rec(0, 1, <<>>), Rec(9, 0, <<65, 0>>)}

HistoryFiles == SeqsUpTo(HistoryRecords, 1) \cup {<<Rec(9, 0, <<65, 0>>), Rec(0, 1, <<>>)>>}

InitHistory ==
    /\ isPath = FALSE
    /\ strict = TRUE
    /\ ignore_unknown = TRUE
    /\ \/ InitWave /\ input.d \in HistoryWaves(input.order)
       \/ InitScan /\ input.recs \in HistoryFiles /\ input.cut = 0

(* The state of a process at the call of either loader, but for the layouts. *)
Called(name, described, bytes) ==
    /\ call' = name
    /\ input' = described
    /\ stream' = bytes
    /\ pos' = 0
    /\ reads' = <<>>
    /\ handle' = IF isPath THEN "none" ELSE "open"
    /\ byte_order' = "None"
    /\ initial_byte_order' = "="
    /\ records' = <<>>
    /\ filesystem' = (<<ROOT>> :> Dict)
    /\ dir_stack' = <<ROOT>>
    /\ ri' = 1
    /\ w' = IF name = "wave" THEN WaveFresh ELSE NoWave
    /\ pc' = "open"
    /\ err' = "none"
    /\ ret' = NoValue
    /\ UNCHANGED <<native, isPath, strict, ignore_unknown>>

Ended == pc \in {"returned", "raised"}

(* What the caller has of a call: the value returned or the exception, and
   what was read from the file. *)
Outcome == [pc |-> pc, err |-> err, ret |-> ret, reads |-> reads]

FileOf(name, described) ==
    IF name = "wave" THEN FileBytes(described.order, described.d)
    ELSE Written(described.recs, described.order, described.cut)

(* The second call, in the process of the first. *)
NextCall ==
    /\ call \in {"wave", "packed"}
    /\ Ended
    /\ "stage" \notin DOMAIN input
    /\ \E o \in {"<", ">"} :
         \/ \E d \in HistoryWaves(o) :
              Called("wave",
                     [d |-> d, order |-> o, stage |-> "after", left |-> structOrder],
                     FileBytes(o, d))
         \/ \E recs \in HistoryFiles :
              Called("packed",
                     [recs |-> recs, order |-> o, cut |-> 0, stage |-> "after",
                      left |-> structOrder],
                     Written(recs, o, 0))
    /\ UNCHANGED structOrder

(* The same call in a fresh process. *)
FreshCall ==
    /\ call \in {"wave", "packed"}
    /\ Ended
    /\ "stage" \in DOMAIN input /\ input.stage = "after"
    /\ Called(call, [input EXCEPT !.stage = "fresh"] @@ [first |-> Outcome],
              FileOf(call, input))
    /\ structOrder' = [s \in StructNames |-> "="]

NextHistory == NextPacked \/ NextWave \/ NextCall \/ FreshCall

SpecHistory == InitHistory /\ [][NextHistory]_vars

(* Either loader. *)
InitLoad == InitScan \/ InitWave
NextLoad == NextPacked \/ NextWave
SpecLoad == InitLoad /\ [][NextLoad]_vars

---------------------------------------------------------------------------
(* util.checksum on the header bytes of a valid wave file, and on the same
   bytes with one byte changed. *)

Deltas == {1, 127, 128, 255}

ValidWaves(v, o) == {d \in NumericWaves(v) : d.type = 4} \cup TextWaves(v, o)

InitCksum ==
    /\ call = "checksum"
    /\ native = "<"
    /\ isPath = FALSE
    /\ strict = TRUE
    /\ ignore_unknown = TRUE
    /\ \E o \in {"<", ">"}, v \in SupportedVersions : \E d \in ValidWaves(v, o) :
         /\ input = [d |-> d, order |-> o]
         /\ stream = SubSeq(WaveBytes(o, d), 1, BinSize(v) + WaveSize(v))
    /\ pos = 0
    /\ reads = <<>>
    /\ handle = "open"
    /\ structOrder = [s \in StructNames |-> "="]
    /\ byte_order = "None"
    /\ initial_byte_order = "="
    /\ records = <<>>
    /\ filesystem = (<<ROOT>> :> Dict)
    /\ dir_stack = <<ROOT>>
    /\ ri = 1
    /\ w = [buffer |-> stream, at |-> 0, was |-> -1, c |-> -1]
    /\ pc = "checksum"
    /\ err = "none"
    /\ ret = NoValue

(* checksum(b, byteOrder, 0, checkSumSize) of the header as written. *)
Summed ==
    /\ pc = "checksum"
    /\ w' = [w EXCEPT !.c = Checksum(stream, input.order, 0, CheckSumSize(input.d.version))]
    /\ pc' = "mutate"
    /\ UNCHANGED <<args, packedLocals, pos, reads, handle, structOrder, err, ret>>

(* The same call on the header with the byte at offset at - 1 changed. *)
Mutate ==
    /\ pc = "mutate"
    /\ \E at \in 1..Len(stream), delta \in Deltas :
         LET buffer == Place(stream, at - 1, <<(stream[at] + delta) % 256>>)
         IN  w' = [buffer |-> buffer, at |-> at, was |-> w.c,
                   c |-> Checksum(buffer, input.order, 0, CheckSumSize(input.d.version))]
    /\ pc' = "mutated"
    /\ UNCHANGED <<args, packedLocals, pos, reads, handle, structOrder, err, ret>>

NextCksum == Summed \/ Mutate

SpecCksum == InitCksum /\ [][NextCksum]_vars

---------------------------------------------------------------------------
(* igor/struct.py: Field and Structure, packing and unpacking.  A Python
   value is a tagged record: None, an integer, a list, a dictionary or a
   numpy array (its shape and its elements in row-major order). *)

None == [t |-> "None"]
PyInt(v) == [t |-> "int", v |-> v]
PyList(items) == [t |-> "list", items |-> items]
PyDict(items) == [t |-> "dict", items |-> items]
NdArray(shape, flat) == [t |-> "ndarray", shape |-> shape, flat |-> flat]

(* count=n and count=(n1, n2, ...) *)
Count(n) == [scalar |-> TRUE, dims |-> <<n>>]
Dims(dims) == [scalar |-> FALSE, dims |-> dims]

(* Field(format, name, default, count); the format is a character of struct
   or a Structure. *)
Char(code) == [code |-> code]
NewField(format, name, default, count) ==
    [format |-> format, name |-> name, default |-> default, count |-> count]
Structure(name, fields) == [code |-> "Structure", name |-> name, fields |-> fields]

IsStructure(format) == format.code = "Structure"

(* Field.__init__: item_count, structure_count, total_count *)
item_count(f) == Product(f.count.dims)

RECURSIVE total_count(_)
RECURSIVE SumTotalCounts(_)
SumTotalCounts(fields) ==
    IF fields = <<>> THEN 0 ELSE total_count(Head(fields)) + SumTotalCounts(Tail(fields))

structure_count(f) == SumTotalCounts(f.format.fields)

total_count(f) ==
    IF IsStructure(f.format) THEN item_count(f) * structure_count(f) ELSE item_count(f)

(* Structure.set_byte_order: the characters of the format after the byte
   order, a nested Structure contributing its sub_format per item. *)
RECURSIVE Repeat(_, _)
Repeat(s, n) == IF n = 0 THEN <<>> ELSE s \o Repeat(s, n - 1)

RECURSIVE FlatFormat(_)
FlatFormat(fields) ==
    IF fields = <<>> THEN <<>>
    ELSE LET f == Head(fields)
             one == IF IsStructure(f.format) THEN FlatFormat(f.format.fields)
                    ELSE <<f.format.code>>
         IN  Repeat(one, item_count(f)) \o FlatFormat(Tail(fields))

(* Field.indexes: the index of the i-th item (from 0), the last dimension
   running fastest; a plain integer count gives the integer itself. *)
RECURSIVE IndexOf(_, _)
IndexOf(i, dims) ==
    IF dims = <<>> THEN <<>>
    ELSE LET c == dims[Len(dims)]
         IN  Append(IndexOf(i \div c, SubSeq(dims, 1, Len(dims) - 1)), i % c)

indexes(f) == [i \in 1..item_count(f) |-> IndexOf(i - 1, f.count.dims)]

(* `item = data; for i in index: item = item[i]` with IndexError giving None;
   subscripting anything but a list is an error that is not caught. *)
RECURSIVE Lookup(_, _)
Lookup(data, index) ==
    IF index = <<>> THEN [err |-> "none", item |-> data]
    ELSE IF data.t = "dict" THEN [err |-> "KeyError", item |-> None]
    ELSE IF data.t # "list" THEN [err |-> "TypeError", item |-> None]
    ELSE IF Head(index) >= Len(data.items) THEN [err |-> "none", item |-> None]
    ELSE Lookup(data.items[Head(index) + 1], Tail(index))

(* What a generator yielded before it ended or raised. *)
Yield(items) == [err |-> "none", args |-> items]
Raise(e) == [err |-> e, args |-> <<>>]

RECURSIVE Chain(_)
Chain(results) ==
    IF results = <<>> THEN Yield(<<>>)
    ELSE IF Head(results).err # "none" THEN Head(results)
    ELSE LET rest == Chain(Tail(results))
         IN  IF rest.err # "none" THEN rest ELSE Yield(Head(results).args \o rest.args)

RECURSIVE pack_data(_, _)
RECURSIVE pack_item(_, _)
RECURSIVE Structure_pack_item(_, _)

(* Field.pack_item *)
pack_item(f, item) ==
    IF IsStructure(f.format) THEN Structure_pack_item(f.format, item)
    ELSE IF item.t = "None"
         THEN (IF f.default.t = "None" THEN Raise("ValueError:no default")
               ELSE Yield(<<f.default>>))
    ELSE Yield(<<item>>)

(* The name f of lines 186-190 is bound nowhere in Field.pack_data. *)
ShortArray(f) == Raise("NameError")

(* Field.pack_data *)
pack_data(f, data) ==
    LET n == item_count(f)
        d == IF data.t = "None" THEN PyList(<<>>) ELSE data
    IN  IF n > 1
        THEN IF d.t = "ndarray"
             THEN LET packed == Chain([i \in 1..Len(d.flat) |-> pack_item(f, d.flat[i])])
                  IN  IF packed.err = "none" /\ Len(d.flat) < n
                      THEN ShortArray(f) ELSE packed
             ELSE Chain([i \in 1..n |->
                          LET found == Lookup(d, indexes(f)[i])
                          IN  IF found.err # "none" THEN Raise(found.err)
                              ELSE pack_item(f, found.item)])
        ELSE IF n = 1 THEN pack_item(f, data)
        ELSE Yield(<<>>)

(* Structure._pack_item: a TypeError of item[f.name] becomes a ValueError, a
   missing key gives None. *)
Structure_pack_item(structure, item) ==
    LET it == IF item.t = "None" THEN PyDict(<<>>) ELSE item
    IN  Chain([k \in 1..Len(structure.fields) |->
                 LET f == structure.fields[k]
                 IN  IF it.t \in {"list", "int"} THEN Raise("ValueError:item")
                     ELSE IF it.t # "dict" THEN Raise("IndexError")
                     ELSE pack_data(f, IF f.name \in DOMAIN it.items
                                       THEN it.items[f.name] ELSE None)])

(* struct.Struct.pack of the arguments: as many integers as the format has characters,
   each within the range of its character. *)
InRange(code, v) ==
    CASE code = "b" -> v \in -128..127
      [] code = "B" -> v \in 0..255
      [] code = "h" -> v \in -32768..32767
      [] code = "H" -> v \in 0..65535
      [] OTHER -> TRUE

(* The integer struct takes for an argument: an integer, or what __int__
   gives for a numpy array of one element. *)
IsInteger(value) ==
    value.t = "int" \/ (value.t = "ndarray" /\ Len(value.flat) = 1)

AsInteger(value) == IF value.t = "int" THEN value.v ELSE value.flat[1].v

StructPack(order, format, values) ==
    IF Len(values) # Len(format) THEN [err |-> "struct.error", bytes |-> <<>>]
    ELSE IF \E i \in 1..Len(values) :
               ~IsInteger(values[i]) \/ ~InRange(format[i], AsInteger(values[i]))
         THEN [err |-> "struct.error", bytes |-> <<>>]
    ELSE [err |-> "none",
          bytes |-> Flatten([i \in 1..Len(values) |->
                      PackInt(IF order = "=" THEN native ELSE order, format[i],
                              AsInteger(values[i]))])]

(* Structure.pack *)
pack(structure, order, data) ==
    LET packed == Structure_pack_item(structure, data)
    IN  IF packed.err # "none" THEN [err |-> packed.err, bytes |-> <<>>]
        ELSE StructPack(order, FlatFormat(structure.fields), packed.args)

(* items[i::s], and zip over the lists *)
Strided(items, i, s) ==
    [k \in 1..((Len(items) - i + s - 1) \div s) |-> items[i + (k - 1) * s + 1]]

Zip(lists) ==
    IF lists = <<>> THEN <<>>
    ELSE LET shortest == CHOOSE n \in {Len(lists[i]) : i \in 1..Len(lists)} :
                             \A i \in 1..Len(lists) : n <= Len(lists[i])
         IN  [k \in 1..shortest |-> [i \in 1..Len(lists) |-> lists[i][k]]]

(* A value or the error raised instead. *)
Value(v) == [err |-> "none", value |-> v]
Failed(e) == [err |-> e, value |-> None]

FirstError(results) ==
    LET bad == {i \in 1..Len(results) : results[i].err # "none"}
    IN  IF bad = {} THEN "none"
        ELSE results[CHOOSE i \in bad : \A j \in bad : i <= j].err

RECURSIVE TotalCountsBefore(_, _)
TotalCountsBefore(fields, k) ==
    IF k = 1 THEN 0 ELSE total_count(fields[k - 1]) + TotalCountsBefore(fields, k - 1)

RECURSIVE unpack_data(_, _)
RECURSIVE Structure_unpack_item(_, _)

(* The zip of items[i::s] for i in range(s): the clumps of a repeated
   Structure field, one per repetition. *)
Clumps(items, s) == Zip([i \in 1..s |-> Strided(items, i - 1, s)])

(* Field.unpack_data, with Field.unpack_item *)
unpack_data(f, data) ==
    IF Len(data) < total_count(f) THEN Failed("ValueError:not enough data")
    ELSE IF Len(data) > total_count(f) THEN Failed("ValueError:too much data")
    ELSE LET unpacked ==
                 IF IsStructure(f.format)
                 THEN LET clumps == Clumps(data, structure_count(f))
                      IN  [k \in 1..Len(clumps) |-> Structure_unpack_item(f.format, clumps[k])]
                 ELSE [k \in 1..Len(data) |-> Value(PyInt(data[k]))]
             values == [k \in 1..Len(unpacked) |-> unpacked[k].value]
         IN  IF FirstError(unpacked) # "none" THEN Failed(FirstError(unpacked))
             ELSE IF f.count.scalar /\ f.count.dims = <<1>> THEN unpacked[1]
             ELSE IF IsStructure(f.format)
                  THEN (IF f.count.scalar THEN Value(PyList(values))
                        ELSE Failed("NotImplementedError"))
             ELSE Value(NdArray(f.count.dims, values))

(* Structure._unpack_item *)
Structure_unpack_item(structure, items) ==
    LET fields == structure.fields
        unpacked == [k \in 1..Len(fields) |->
                       LET at == TotalCountsBefore(fields, k)
                       IN  IF Len(items) < at + total_count(fields[k])
                           THEN Failed("ValueError:not enough data")
                           ELSE unpack_data(fields[k],
                                            SubSeq(items, at + 1, at + total_count(fields[k])))]
    IN  IF FirstError(unpacked) # "none" THEN Failed(FirstError(unpacked))
        ELSE IF Len(items) > SumTotalCounts(fields) THEN Failed("ValueError:too much data")
        ELSE Value(PyDict([n \in {fields[k].name : k \in 1..Len(fields)} |->
                 unpacked[CHOOSE k \in 1..Len(fields) : fields[k].name = n].value]))

(* struct.Struct.unpack: the integers of a string of exactly the size. *)
RECURSIVE StructUnpack(_, _, _)
StructUnpack(order, format, bytes) ==
    IF format = <<>> THEN <<>>
    ELSE <<UnpackInt(order, Head(format), SubSeq(bytes, 1, CalcSize(Head(format))))>>
         \o StructUnpack(order, Tail(format),
                         SubSeq(bytes, CalcSize(Head(format)) + 1, Len(bytes)))

(* Structure.unpack *)
unpack(structure, order, bytes) ==
    LET format == FlatFormat(structure.fields)
    IN  IF Len(bytes) # FormatSize(format) THEN Failed("struct.error")
        ELSE Structure_unpack_item(structure, StructUnpack(order, format, bytes))

---------------------------------------------------------------------------
(* The structures and value trees pack and unpack are run on: those of the
   examples of struct.py (time, data, run, version, runs, experiment) with
   small counts. *)

MaxRuns == 2

time_field(default) == NewField(Char("H"), "time", default, Count(1))
data_field(default, count) == NewField(Char("h"), "data", default, count)
run_structure(default, count) ==
    Structure("run", <<time_field(default), data_field(default, count)>>)
version_field(default) == NewField(Char("H"), "version", default, Count(1))
runs_field(default, count, n) ==
    NewField(run_structure(default, count), "runs", None, Count(n))
experiment_structure(default, count, n) ==
    Structure("experiment", <<version_field(default), runs_field(default, count, n)>>)

DataCounts == {Count(2), Count(0), Dims(<<2, 2>>), Dims(<<1, 2>>), Dims(<<1, 1>>)}

Structures(default) ==
    {run_structure(default, count) : count \in DataCounts}
    \cup {experiment_structure(default, count, n) :
            count \in {Count(2), Dims(<<1, 2>>)}, n \in 1..MaxRuns}

(* The value of the k-th character of the flat format: two non-zero bytes,
   negative under a negative seed where the character is signed. *)
Seeds == {1, -3000}
LeafValue(code, k, seed) == IF code = "H" THEN 257 * k + 1 ELSE seed + 257 * k

(* Nested lists of the dimensions over the values in row-major order. *)
RECURSIVE Nest(_, _)
Nest(dims, values) ==
    IF Len(dims) = 1 THEN PyList(values)
    ELSE LET inner == Len(values) \div dims[1]
         IN  PyList([j \in 1..dims[1] |->
                       Nest(Tail(dims), SubSeq(values, (j - 1) * inner + 1, j * inner))])

(* The value tree of a structure whose flat values are vals (from position
   at + 1 on), arrays as nested lists or as numpy arrays. *)
RECURSIVE TreeOf(_, _, _, _)
FieldTree(f, vals, at, form) ==
    IF IsStructure(f.format)
    THEN IF f.count = Count(1) THEN TreeOf(f.format, vals, at, form)
         ELSE PyList([j \in 1..item_count(f) |->
                        TreeOf(f.format, vals, at + (j - 1) * structure_count(f), form)])
    ELSE IF f.count = Count(1) THEN PyInt(vals[at + 1])
    ELSE LET values == [i \in 1..item_count(f) |-> PyInt(vals[at + i])]
         IN  IF form = "list" THEN Nest(f.count.dims, values)
             ELSE NdArray(f.count.dims, values)

TreeOf(structure, vals, at, form) ==
    LET fields == structure.fields
    IN  PyDict([n \in {fields[k].name : k \in 1..Len(fields)} |->
          LET k == CHOOSE k \in 1..Len(fields) : fields[k].name = n
          IN  FieldTree(fields[k], vals, at + TotalCountsBefore(fields, k), form)])

Values(structure, seed) ==
    LET format == FlatFormat(structure.fields)
    IN  [k \in 1..Len(format) |-> LeafValue(format[k], k, seed)]

(* The forms in which the data of one field can miss elements. *)
Hows == {"absent", "None", "short list", "short array"}

Applicable(value, how) ==
    CASE how = "short list" -> value.t = "list" /\ value.items # <<>>
      [] how = "short array" -> value.t = "ndarray" /\ value.flat # <<>>
      [] OTHER -> TRUE

Supplied(tree, name, how) ==
    LET value == tree.items[name]
    IN  CASE how = "absent" ->
               PyDict([n \in DOMAIN tree.items \ {name} |-> tree.items[n]])
          [] how = "None" -> PyDict([tree.items EXCEPT ![name] = None])
          [] how = "short list" ->
               PyDict([tree.items EXCEPT
                         ![name] = PyList(SubSeq(value.items, 1, Len(value.items) - 1))])
          [] how = "short array" ->
               PyDict([tree.items EXCEPT
                         ![name] = NdArray(<<Len(value.flat) - 1>>,
                                           SubSeq(value.flat, 1, Len(value.flat) - 1))])

(* The positions in the flat format of the elements that are then missing. *)
MissingLeaves(structure, j, how) ==
    LET f == structure.fields[j]
        at == TotalCountsBefore(structure.fields, j)
        total == total_count(f)
        outer == IF IsStructure(f.format) THEN item_count(f) ELSE f.count.dims[1]
    IN  CASE how \in {"absent", "None"} -> (at + 1)..(at + total)
          [] how = "short list" -> (at + total - (total \div outer) + 1)..(at + total)
          [] how = "short array" -> {at + total}

InitStruct ==
    /\ call = "struct"
    /\ native \in {"<", ">"}
    /\ isPath = FALSE
    /\ strict = TRUE
    /\ ignore_unknown = TRUE
    /\ \E default \in {None, PyInt(0)}, seed \in Seeds, form \in {"list", "ndarray"},
          order \in {"=", "<", ">"} :
         \E structure \in Structures(default) :
           LET vals == Values(structure, seed)
               tree == TreeOf(structure, vals, 0, form)
           IN  \/ input = [structure |-> structure, order |-> order, vals |-> vals,
                           tree |-> tree, how |-> "complete", missing |-> {},
                           default |-> default]
               \/ \E j \in 1..Len(structure.fields), how \in Hows :
                    /\ Applicable(tree.items[structure.fields[j].name], how)
                    /\ input = [structure |-> structure, order |-> order, vals |-> vals,
                                tree |-> Supplied(tree, structure.fields[j].name, how),
                                how |-> how, missing |-> MissingLeaves(structure, j, how),
                                default |-> default]
    /\ stream = <<>>
    /\ pos = 0
    /\ reads = <<>>
    /\ handle = "none"
    /\ structOrder = [s \in StructNames |-> "="]
    /\ byte_order = "None"
    /\ initial_byte_order = "="
    /\ records = <<>>
    /\ filesystem = (<<ROOT>> :> Dict)
    /\ dir_stack = <<ROOT>>
    /\ ri = 1
    /\ w = WaveFresh
    /\ pc = "pack"
    /\ err = "none"
    /\ ret = NoValue

(* b = structure.pack(tree) *)
StructurePack ==
    /\ pc = "pack"
    /\ LET packed == pack(input.structure, input.order, input.tree)
       IN  /\ stream' = packed.bytes
           /\ err' = packed.err
           /\ pc' = IF packed.err = "none" THEN "unpack" ELSE "raised"
    /\ UNCHANGED <<call, native, isPath, strict, ignore_unknown, input, packedLocals,
                   w, pos, reads, handle, structOrder, ret>>

(* structure.unpack(b) *)
StructureUnpack ==
    /\ pc = "unpack"
    /\ LET unpacked == unpack(input.structure, input.order, stream)
       IN  /\ ret' = unpacked.value
           /\ err' = unpacked.err
           /\ pc' = IF unpacked.err = "none" THEN "unpacked" ELSE "raised"
    /\ UNCHANGED <<args, packedLocals, w, pos, reads, handle, structOrder>>

NextStruct == StructurePack \/ StructureUnpack

SpecStruct == InitStruct /\ [][NextStruct]_vars

---------------------------------------------------------------------------
(* igor/record/variables.py: the layouts and VariablesRecord.__init__.  The
   VarNumRec of a UserNumVarRec or UserDependentVarRec is written out field by
   field. *)

VarHeaderCommon == << Field("version", "h", 1) >>

VarHeader1 ==
    << Field("version", "h", 1), Field("numSysVars", "h", 1),
       Field("numUserVars", "h", 1), Field("numUserStrs", "h", 1) >>

VarHeader2 ==
    << Field("version", "h", 1), Field("numSysVars", "h", 1),
       Field("numUserVars", "h", 1), Field("numUserStrs", "h", 1),
       Field("numDependentVars", "h", 1), Field("numDependentStrs", "h", 1) >>

UserStrVarRec1 ==
    << Field("name", "c", 32), Field("strLen", "h", 1), Field("data", "c", 1) >>

UserStrVarRec2 ==
    << Field("name", "c", 32), Field("strLen", "l", 1), Field("data", "c", 1) >>

VarNumRec ==
    << Field("numType", "h", 1), Field("realPart", "d", 1), Field("imagPart", "d", 1),
       Field("reserved", "l", 1) >>

UserNumVarRec == << Field("name", "c", 32), Field("type", "h", 1) >> \o VarNumRec

UserDependentVarRec ==
    << Field("name", "c", 32), Field("type", "h", 1) >> \o VarNumRec
    \o << Field("formulaLen", "h", 1), Field("formula", "c", 1) >>

VarHeader(version) == IF version = 1 THEN VarHeader1 ELSE VarHeader2
UserStrVarRec(version) == IF version = 1 THEN UserStrVarRec1 ELSE UserStrVarRec2

(* _set_byte_order_and_get_version: the byte order of the record and the
   version, for data that holds the version field. *)
RecordByteOrder(given, data) ==
    IF given # "None" THEN given
    ELSE byte_order_of(need_to_reorder_bytes(
             UnpackField("=", VarHeaderCommon, "version", data, 0)))

RecordVersion(given, data) ==
    UnpackField(RecordByteOrder(given, data), VarHeaderCommon, "version", data, 0)

(* _get_structure: the header as header_struct.unpack_from(self.data) gives
   it.  No set_byte_order is applied to VarHeader1, VarHeader2 or to the
   'variables' Structure built on them: they stay in the '=' they were
   constructed with. *)
HeaderOrder(bo) == "="

(* self.structure.size: the header, the system variables, the user numeric
   variables. *)
VariablesSize(version, header) ==
    StructSize(VarHeader(version)) + CalcSize("f") * header["numSysVars"]
        + StructSize(UserNumVarRec) * header["numUserVars"]

(* The loops of _unpack_variable_length_structures and
   _unpack_dependent_variable: n records of the layout, each followed by as
   many bytes as its length field says less the one in the layout; the
   offset after them, or the error of an unpack_from past the end. *)
RECURSIVE Consume(_, _, _, _, _, _)
Consume(data, bo, layout, lengthField, n, offset) ==
    IF n = 0 THEN [err |-> "none", offset |-> offset]
    ELSE IF offset < 0 \/ Len(data) - offset < StructSize(layout)
         THEN [err |-> "struct.error", offset |-> offset]
    ELSE LET length == UnpackField(bo, layout, lengthField, data, offset)
         IN  Consume(data, bo, layout, lengthField, n - 1,
                     offset + StructSize(layout) + length - 1)

(* VariablesRecord.__init__, lines 92-94: the version, the header and the
   fixed-size part. *)
VarsHeader ==
    /\ pc = "vars"
    /\ LET data == stream
           short == Len(data) < StructSize(VarHeaderCommon)
           bo == IF short THEN "None" ELSE RecordByteOrder(input.given, data)
           version == IF short THEN 0 ELSE RecordVersion(input.given, data)
           known == version \in {1, 2}
           layout == VarHeader(version)
           cut == known /\ Len(data) < StructSize(layout)
           header == IF known /\ ~cut
                     THEN [n \in {layout[i].name : i \in 1..Len(layout)} |->
                             UnpackField(HeaderOrder(bo), layout, n, data, 0)]
                     ELSE NoValue
           failure == IF short THEN "struct.error"
                      ELSE IF ~known THEN "NotImplementedError"
                      ELSE IF cut THEN "struct.error"
                      ELSE IF Len(data) < VariablesSize(version, header) THEN "struct.error"
                      ELSE "none"
       IN  /\ err' = failure
           /\ pc' = IF failure = "none" THEN "strings" ELSE "raised"
           /\ w' = [byte_order |-> bo, version |-> version, header |-> header,
                    offset |-> IF failure = "none" THEN VariablesSize(version, header) ELSE 0]
    /\ UNCHANGED <<args, packedLocals, pos, reads, handle, structOrder, ret>>

(* _unpack_variable_length_structures: the user strings, for version 2 the
   dependent variables and strings, then the check of the final offset. *)
VarsStrings ==
    /\ pc = "strings"
    /\ LET strs == Consume(stream, w.byte_order, UserStrVarRec(w.version), "strLen",
                           w.header["numUserStrs"], w.offset)
           deps == IF w.version = 2 /\ strs.err = "none"
                   THEN Consume(stream, w.byte_order, UserDependentVarRec, "formulaLen",
                                w.header["numDependentVars"] + w.header["numDependentStrs"],
                                strs.offset)
                   ELSE strs
           failure == IF deps.err # "none" THEN deps.err
                      ELSE IF deps.offset # Len(stream) THEN "ValueError:too much data"
                      ELSE "none"
       IN  /\ err' = failure
           /\ pc' = IF failure = "none" THEN "normalize" ELSE "raised"
           /\ w' = [w EXCEPT !.offset = deps.offset]
    /\ UNCHANGED <<args, packedLocals, pos, reads, handle, structOrder, ret>>

(* _normalize_variables: a single user variable is unpacked as one dictionary
   (count == 1), whose keys the loop then subscripts; a user variable of a
   non-zero type is converted by the type of its numType; version 2 is not
   implemented. *)
VarsNormalize ==
    /\ pc = "normalize"
    /\ LET at(i) == StructSize(VarHeader(w.version)) + CalcSize("f") * w.header["numSysVars"]
                       + (i - 1) * StructSize(UserNumVarRec)
           typed == {i \in 1..w.header["numUserVars"] :
                       UnpackField("=", UserNumVarRec, "type", stream, at(i)) # 0}
           numType(i) == UnpackField("=", UserNumVarRec, "numType", stream, at(i))
           failure == IF w.header["numUserVars"] = 1 THEN "TypeError"
                      ELSE IF \E i \in typed : numType(i) \notin TypeCodes THEN "KeyError"
                      ELSE IF \E i \in typed : numType(i) = 0 THEN "TypeError"
                      ELSE IF w.version = 2 THEN "NotImplementedError"
                      ELSE "none"
       IN  /\ err' = failure
           /\ pc' = IF failure = "none" THEN "decoded" ELSE "raised"
    /\ UNCHANGED <<args, packedLocals, w, pos, reads, handle, structOrder, ret>>

NextVars == VarsHeader \/ VarsStrings \/ VarsNormalize

(* The payloads of Variables records: written in byte order o from the
   description d, then d.extra bytes added (or one cut off). *)
RECURSIVE ConcatRange(_, _, _)
ConcatRange(ss, lo, hi) ==
    IF lo > hi THEN <<>>
    ELSE IF lo = hi THEN ss[lo]
    ELSE LET mid == (lo + hi) \div 2
         IN  ConcatRange(ss, lo, mid) \o ConcatRange(ss, mid + 1, hi)

ConcatAll(ss) == ConcatRange(ss, 1, Len(ss))

Letters(n, letter) == [i \in 1..n |-> letter]

VarsBytes(o, d) ==
    LET header == PackInt(o, "h", d.version) \o PackInt(o, "h", d.numSysVars)
                  \o PackInt(o, "h", d.numUserVars) \o PackInt(o, "h", Len(d.strs))
                  \o (IF d.version = 2
                      THEN PackInt(o, "h", Len(d.depVars)) \o PackInt(o, "h", Len(d.depStrs))
                      ELSE <<>>)
        fixed == Zeros(CalcSize("f") * d.numSysVars)
                 \o Zeros(StructSize(UserNumVarRec) * d.numUserVars)
        lenCode == IF d.version = 1 THEN "h" ELSE "l"
        str(n) == Zeros(32) \o PackInt(o, lenCode, n) \o Letters(n, 97)
        dep(n) == Zeros(32 + 2 + StructSize(VarNumRec)) \o PackInt(o, "h", n)
                  \o Letters(n, 102)
        deps == d.depVars \o d.depStrs
        all == header \o fixed \o ConcatAll([i \in 1..Len(d.strs) |-> str(d.strs[i])])
               \o ConcatAll([i \in 1..Len(deps) |-> dep(deps[i])])
    IN  IF d.extra < 0 THEN SubSeq(all, 1, Len(all) + d.extra) ELSE all \o Zeros(d.extra)

MaxStrs == 2
Lengths == {0, 2}
Extras == {-1, 0, 1, 3}

Variables(version, numSysVars, numUserVars, strs, depVars, depStrs, extra) ==
    [version |-> version, numSysVars |-> numSysVars, numUserVars |-> numUserVars,
     strs |-> strs, depVars |-> depVars, depStrs |-> depStrs, extra |-> extra]

(* A record of 256 empty user strings, written on a machine of the other
   byte order: the count reads as 1 in the native one. *)
ManyStrings == Variables(1, 0, 0, [i \in 1..256 |-> 0], <<>>, <<>>, 0)

VariablesRecords ==
    { Variables(1, sys, usr, strs, <<>>, <<>>, extra) :
        sys \in {0, 1}, usr \in {0, 2}, strs \in SeqsUpTo(Lengths, MaxStrs), extra \in Extras }
    \cup { Variables(2, 0, 0, strs, depVars, depStrs, extra) :
        strs \in SeqsUpTo(Lengths, 1), depVars \in SeqsUpTo(Lengths, 1),
        depStrs \in SeqsUpTo({2}, 1), extra \in Extras }
    \cup { Variables(1, 0, 1, <<>>, <<>>, <<>>, 0), Variables(3, 0, 0, <<>>, <<>>, <<>>, 0),
           Variables(2, 0, 1, <<>>, <<>>, <<>>, 0), Variables(2, 1, 2, <<>>, <<>>, <<>>, 0),
           ManyStrings }

InitVars ==
    /\ call = "variables"
    /\ native \in {"<", ">"}
    /\ isPath = FALSE
    /\ strict = TRUE
    /\ ignore_unknown = TRUE
    /\ \E o \in {"<", ">"}, d \in VariablesRecords : \E given \in {"None", o} :
         /\ d = ManyStrings => o # native
         /\ input = [d |-> d, order |-> o, given |-> given]
         /\ stream = VarsBytes(o, d)
    /\ pos = 0
    /\ reads = <<>>
    /\ handle = "none"
    /\ structOrder = [s \in StructNames |-> "="]
    /\ byte_order = "None"
    /\ initial_byte_order = "="
    /\ records = <<>>
    /\ filesystem = (<<ROOT>> :> Dict)
    /\ dir_stack = <<ROOT>>
    /\ ri = 1
    /\ w = WaveFresh
    /\ pc = "vars"
    /\ err = "none"
    /\ ret = NoValue

SpecVars == InitVars /\ [][NextVars]_vars

---------------------------------------------------------------------------
(* Claims about the folder tree of packed.load. *)

RECURSIVE DepthOk(_, _)
DepthOk(recs, depth) ==
    IF recs = <<>> THEN TRUE
    ELSE IF Head(recs).cls = "FolderStartRecord" THEN DepthOk(Tail(recs), depth + 1)
    ELSE IF Head(recs).cls = "FolderEndRecord"
         THEN depth > 0 /\ DepthOk(Tail(recs), depth - 1)
    ELSE DepthOk(Tail(recs), depth)

(* Every FolderEnd has a matching earlier FolderStart. *)
Balanced(recs) == DepthOk(recs, 0)

(* The reduction ran to its end: it returned or it raised. *)
TreeErrors == {"IndexError", "AttributeError"}
TreeEnded == pc = "returned" \/ (pc = "raised" /\ err \in TreeErrors)

(* The tree the claim describes, folded over the record list: acc is the tree
   and the path of the innermost open folder. *)
RECURSIVE ClaimedTree(_, _, _)
ClaimedTree(recs, i, acc) ==
    IF i > Len(recs) THEN acc.fs
    ELSE LET r == recs[i]
             key == IF r.cls = "WaveRecord" THEN WAVES_KEY ELSE VARIABLES_KEY
             p == Append(acc.open, key)
         IN  CASE r.cls = "FolderStartRecord" ->
                    ClaimedTree(recs, i + 1,
                        [fs |-> SetItem(acc.fs, acc.open, NullTerminatedText(r.data), Dict),
                         open |-> Append(acc.open, NullTerminatedText(r.data))])
               [] r.cls = "FolderEndRecord" ->
                    ClaimedTree(recs, i + 1,
                        [acc EXCEPT !.open = SubSeq(@, 1, Len(@) - 1)])
               [] r.cls \in {"WaveRecord", "VariablesRecord"} ->
                    ClaimedTree(recs, i + 1,
                        [acc EXCEPT !.fs =
                            IF p \in DOMAIN acc.fs /\ acc.fs[p].kind = "list"
                            THEN [acc.fs EXCEPT ![p] = List(Append(@.items, i))]
                            ELSE SetItem(acc.fs, acc.open, key, List(<<i>>))])
               [] OTHER -> ClaimedTree(recs, i + 1, acc)

(* C1: for a record sequence in which every FolderEnd has a matching earlier
   FolderStart, the load returns the tree in which every FolderStart made an
   empty child of the innermost open folder and opened it, every FolderEnd
   closed it, and every Wave or Variables record was appended, in stream
   order, to the ':waves' or ':variables' list of the innermost open folder. *)
C1_TreeReduction ==
    (TreeEnded /\ Balanced(records)) =>
        /\ pc = "returned"
        /\ ret = <<records,
                   ClaimedTree(records, 1, [fs |-> (<<ROOT>> :> Dict), open |-> <<ROOT>>])>>

(* C2: a FolderEnd met while only the root is on the stack makes the load fail
   with the unbalanced-folder error, wherever it occurs, so the stack is never
   left without its root entry. *)
C2_UnbalancedFolderEnd ==
    /\ dir_stack # <<>>
    /\ (TreeEnded /\ ~Balanced(records)) =>
           (pc = "raised" /\ err = "UnbalancedFolderError")

(* C3: in every tree the keys ':waves' and ':variables' hold lists of records,
   never a folder: no FolderStart creates or replaces their entry. *)
C3_ReservedKeys ==
    \A p \in DOMAIN filesystem :
        p[Len(p)] \in {WAVES_KEY, VARIABLES_KEY} => filesystem[p].kind = "list"

---------------------------------------------------------------------------
(* Claims about the record scan of packed.load. *)

ScanEnded == call = "packed" /\ pc \notin {"open", "scan"}

(* The exception the scan loop ended with. *)
ScanErr == IF err \in TreeErrors THEN "none" ELSE err

RECURSIVE SumReturned(_, _)
SumReturned(rs, k) == IF k = 0 THEN 0 ELSE rs[k][2] + SumReturned(rs, k - 1)

(* The file offset at which the k-th read started. *)
ReadOffset(k) == SumReturned(reads, k - 1)

(* The reads of the loop come in pairs, header then payload.  The source is a
   run of well-formed records and nothing else when every header read
   returned a whole header or nothing, and every payload read returned
   exactly the numDataBytes it asked for. *)
WellFramed ==
    \A k \in 1..Len(reads) :
        IF k % 2 = 1
        THEN reads[k][2] \in {0, PackedFileRecordHeaderSize}
        ELSE reads[k][1] >= 0 /\ reads[k][2] = reads[k][1]

HeadersRead == Cardinality({k \in 1..Len(reads) :
                   k % 2 = 1 /\ reads[k][2] = PackedFileRecordHeaderSize})

(* C4 as claimed: on a source of well-formed records the scan loop, left to
   ignore unknown records, ends without error. *)
C4_Original == (ScanEnded /\ WellFramed /\ ignore_unknown) => ScanErr = "none"

(* C4 as amended: on a source of well-formed records the scan loop raises
   nothing but a record decoder's error or, in strict mode, the unknown record
   type error; otherwise it ends at the empty header read, with the whole
   source read and one record per header (none for the empty source). *)
C4_ScanTermination ==
    (ScanEnded /\ WellFramed) =>
        /\ ScanErr \in {"none", "DecoderError", "KeyError"}
        /\ ScanErr = "KeyError" => ~ignore_unknown
        /\ ScanErr = "none" =>
              /\ pos = Len(stream)
              /\ reads[Len(reads)] = <<PackedFileRecordHeaderSize, 0>>
              /\ Len(records) = HeadersRead
              /\ stream = <<>> => records = <<>>

C4_Witness ==
    /\ ScanEnded /\ WellFramed /\ ScanErr = "none"
    /\ Len(records) = 1 /\ pos = Len(stream) /\ Len(records[1].data) > 0

(* C5: the returned record list has one entry per record header read, in
   stream order, of the class the type table gives for the masked record
   type; a record of a code outside the table is in the list as an
   UnknownRecord at its place. *)
ClassOfCode(code) ==
    CASE code \in {0, 6} -> "UnusedRecord"
      [] code = 1 -> "VariablesRecord"
      [] code = 2 -> "HistoryRecord"
      [] code = 3 -> "WaveRecord"
      [] code = 4 -> "RecreationRecord"
      [] code = 5 -> "ProcedureRecord"
      [] code = 7 -> "GetHistoryRecord"
      [] code = 8 -> "PackedFileRecord"
      [] code = 9 -> "FolderStartRecord"
      [] code = 10 -> "FolderEndRecord"
      [] OTHER -> "UnknownRecord"

HeaderBytesAt(k) == SubSeq(stream, ReadOffset(k) + 1, ReadOffset(k) + reads[k][2])

C5_OneRecordPerHeader ==
    (call = "packed" /\ pc = "returned" /\ ignore_unknown) =>
        /\ Len(ret[1]) = HeadersRead
        /\ \A i \in 1..Len(ret[1]) :
              LET r == ret[1][i]
                  hb == HeaderBytesAt(2 * i - 1)
              IN  /\ r.header \in {UnpackRecordHeader("<", hb), UnpackRecordHeader(">", hb)}
                  /\ r.data = SubSeq(stream, ReadOffset(2 * i) + 1,
                                     ReadOffset(2 * i) + reads[2 * i][2])
                  /\ r.cls = ClassOfCode(r.header.recordType % 32768)

C5_Witness ==
    /\ call = "packed" /\ pc = "returned" /\ ignore_unknown
    /\ Len(ret[1]) = 2
    /\ ret[1][1].cls = "UnknownRecord"
    /\ ret[1][2].cls = "WaveRecord" /\ ret[1][2].header.recordType >= 32768

(* C6: a record whose masked code is outside the table or maps to the unused
   marker fails the load with the unknown-record-type error when
   ignore_unknown is false and raises nothing when it is true (the loop
   never ends on such a record); a known code never raises it; the superceded
   bit never changes the class selected. *)
LastHeader ==
    UnpackRecordHeader(initial_byte_order, HeaderBytesAt(Len(reads) - 1))

EndedOnRecord == Len(reads) >= 2 /\ Len(reads) % 2 = 0

C6_UnknownStrictness ==
    ScanEnded =>
        /\ ScanErr = "KeyError" <=>
              /\ ~ignore_unknown
              /\ EndedOnRecord
              /\ ClassOfCode(LastHeader.recordType % 32768)
                     \in {"UnknownRecord", "UnusedRecord"}
        /\ ~ignore_unknown =>
              \A i \in 1..Len(records) :
                  records[i].cls \notin {"UnknownRecord", "UnusedRecord"}
        /\ (ignore_unknown /\ EndedOnRecord) =>
              ClassOfCode(LastHeader.recordType % 32768)
                  \notin {"UnknownRecord", "UnusedRecord"}
        /\ \A i \in 1..Len(records) :
              LET t == records[i].header.recordType
              IN  records[i].cls = ClassOfCode(IF t >= 32768 THEN t - 32768 ELSE t)

C6_Witness ==
    /\ ScanEnded /\ ScanErr = "KeyError" /\ ~ignore_unknown
    /\ LastHeader.recordType >= 32768

---------------------------------------------------------------------------
(* Claims about both loaders. *)

(* C7: a load that fails returns no value: not the records decoded before the
   failing record, not a partly built tree, not the wave read so far. *)
C7_NoPartialResult ==
    /\ err # "none" => (ret = NoValue /\ pc # "returned")
    /\ pc = "raised" => (err # "none" /\ ret = NoValue)
    /\ ret # NoValue => (pc = "returned" /\ err = "none")

C7_Witness ==
    /\ call = "packed" /\ pc = "raised" /\ err = "DecoderError"
    /\ Len(records) >= 1 /\ ret = NoValue

(* C8: a handle the function opened is closed on every exit, by return or by
   exception; a stream of the caller is never closed. *)
Exited == pc \in {"raised", "returned"}

C8_ResourceRelease ==
    /\ ~isPath => handle = "open"
    /\ (isPath /\ pc = "open") => handle = "none"
    /\ (isPath /\ Exited) => handle = "closed"

C8_Witness ==
    /\ call = "wave" /\ isPath /\ pc = "raised" /\ err = "ValueError:checksum"
    /\ handle = "closed"

---------------------------------------------------------------------------
(* Claims about the checksum. *)

(* The checksum of the checksum region of the file, in the byte order the
   loader settled on. *)
RegionChecksum ==
    Checksum(SubSeq(stream, 1, CheckSumSize(w.version)), w.byteOrder, 0,
             CheckSumSize(w.version))

HeaderStepDone ==
    /\ call = "wave" /\ pc \notin {"open", "probe", "header"}
    /\ w.version \in SupportedVersions
    /\ Len(stream) >= CheckSumSize(w.version)

(* C9: for every supported version, strict or not, a nonzero checksum of the
   checksum region fails the load with the checksum error, before either
   header is unpacked and before anything past the two headers is read; no
   load returns without that checksum having been found zero. *)
C9_ChecksumGate ==
    /\ (HeaderStepDone /\ RegionChecksum # 0) =>
           /\ pc \in {"finally", "raised"}
           /\ err = "ValueError:checksum"
           /\ w.bin_info = NoValue /\ w.wave_info = NoValue
           /\ Len(reads) = 2
           /\ pos <= BinSize(w.version) + WaveSize(w.version)
           /\ ret = NoValue
    /\ (call = "wave" /\ w.bin_info # NoValue) => (HeaderStepDone /\ RegionChecksum = 0)
    /\ (call = "wave" /\ pc = "returned") =>
           (HeaderStepDone /\ w.c = 0 /\ RegionChecksum = 0)

C9_Witness ==
    /\ HeaderStepDone /\ RegionChecksum # 0 /\ pc = "raised" /\ ~strict
    /\ w.version = 5 /\ input.d.npnts > 0

(* C10 as claimed: the header of a valid file sums to zero, and with any one
   of its bytes changed it does not. *)
C10_Original ==
    /\ pc = "mutate" => w.c = 0
    /\ pc = "mutated" => (w.was = 0 /\ w.c # 0)

(* C10 as amended: the header of a valid file sums to zero, and with any one
   byte of the checksum region changed it does not; a change to one of the
   last 4 bytes of a version 5 header, which are outside the region, leaves
   the checksum zero. *)
C10_ChecksumSensitivity ==
    /\ pc = "mutate" => w.c = 0
    /\ pc = "mutated" =>
           /\ w.was = 0
           /\ w.at <= CheckSumSize(input.d.version) => w.c # 0
           /\ w.at > CheckSumSize(input.d.version) => w.c = 0

C10_Witness ==
    /\ pc = "mutated" /\ input.d.version = 5
    /\ w.at = CheckSumSize(input.d.version) /\ w.c # 0

---------------------------------------------------------------------------
(* Claims about the version dispatch of binarywave.load. *)

(* The pair of layouts the claim gives for a version. *)
ClaimedPair(version) ==
    CASE version = 1 -> <<"BinHeader1", "WaveHeader2">>
      [] version = 2 -> <<"BinHeader2", "WaveHeader2">>
      [] version = 3 -> <<"BinHeader3", "WaveHeader2">>
      [] version = 5 -> <<"BinHeader5", "WaveHeader5">>

ClaimedPairSize(version) ==
    StructSize(Layout(ClaimedPair(version)[1])) + StructSize(Layout(ClaimedPair(version)[2]))

(* The version probe read the two bytes of the version field. *)
Probed == call = "wave" /\ pc \notin {"open", "probe"} /\ Len(w.b) >= 2

(* The version is one of 1, 2, 3, 5: the pair of the claim is put in the
   byte order of the file and the rest of exactly that pair is read next. *)
DispatchesPair ==
    /\ err # "ValueError:version"
    /\ structOrder[ClaimedPair(w.version)[1]] = w.byteOrder
    /\ structOrder[ClaimedPair(w.version)[2]] = w.byteOrder
    /\ Len(reads) >= 2 => reads[2][1] = ClaimedPairSize(w.version) - 2

(* Any other version: the unsupported-version error, nothing read after the
   version field. *)
RefusesVersion ==
    /\ pc \in {"finally", "raised"}
    /\ err = "ValueError:version"
    /\ Len(reads) = 1 /\ pos = 2
    /\ ret = NoValue

(* C11 as claimed: versions 1, 2, 3 and 5 select their pair of layouts; every
   other version fails with the unsupported-version error before any further
   byte is read and with every header layout in the byte order it had. *)
C11_Original ==
    Probed =>
        IF w.version \in {1, 2, 3, 5} THEN DispatchesPair
        ELSE RefusesVersion /\ \A s \in StructNames : structOrder[s] = "="

(* C11 as amended: versions 1, 2, 3 and 5 select their pair of layouts; every
   other version fails with the unsupported-version error before any further
   byte is read and with every version-specific layout in the byte order it
   had; the common header layout is left in the swapped byte order when the
   low byte of the version read natively is zero, as it always is for
   version 0. *)
C11_VersionDispatch ==
    Probed =>
        IF w.version \in {1, 2, 3, 5} THEN DispatchesPair
        ELSE /\ RefusesVersion
             /\ \A s \in StructNames \ {"BinHeaderCommon"} : structOrder[s] = "="
             /\ structOrder["BinHeaderCommon"] =
                   IF w.version % 256 = 0 \/ input.order # native
                   THEN w.byteOrder ELSE "="
             /\ (w.version % 256 = 0 \/ input.order # native) => w.byteOrder # native

C11_Witness ==
    /\ Probed /\ w.version = 4 /\ pc = "raised" /\ err = "ValueError:version"
    /\ input.order = native

---------------------------------------------------------------------------
(* Claims about the byte order of a wave file. *)

(* The second load, of the file in the other byte order, has returned. *)
BothReturned == call = "wave" /\ "first" \in DOMAIN input /\ pc = "returned"

SameData ==
    /\ ret[1].kind = input.first[1].kind
    /\ ret[1].shape = input.first[1].shape
    /\ ArrayValues(ret[1]) = ArrayValues(input.first[1])

(* C12 as claimed: the same wave stored in the two byte orders loads to equal
   data and to equal wave_info, wData included. *)
C12_Original == BothReturned => SameData /\ ret[3] = input.first[3]

(* C12 as amended: the same wave stored in the two byte orders loads to equal
   data and to a wave_info with the same keys and equal values under every key
   but wData; wData, the first sample bytes read as 32-bit floats, is equal
   when the samples are 32-bit floats or there are none.  A file that loads in
   one byte order loads in the other. *)
C12_ByteOrderIndependence ==
    /\ BothReturned =>
         /\ SameData
         /\ DOMAIN ret[3] = DOMAIN input.first[3]
         /\ \A key \in DOMAIN ret[3] \ {"wData"} : ret[3][key] = input.first[3][key]
         /\ (input.d.type = 2 \/ input.d.npnts = 0) => ret[3] = input.first[3]
    /\ (call = "wave" /\ "first" \in DOMAIN input) => err = "none"

C12_Witness ==
    /\ BothReturned /\ input.d.type = 4 /\ input.d.npnts = 2 /\ input.d.version = 2
    /\ ArrayValues(ret[1]) = << <<1, 2, 3, 4, 5, 6, 7, 8>>, <<9, 10, 11, 12, 13, 14, 15, 16>> >>
    /\ ret[3]["wData"] # input.first[3]["wData"]

---------------------------------------------------------------------------
(* Claims about the padding of version 2 and 3 wave files. *)

(* Buffers assert_null is given: empty, all zero, one or all bytes non-zero. *)
NullCheckBuffers ==
    {<<>>, Zeros(16), Place(Zeros(16), 3, <<1>>), Place(Zeros(16), 15, <<255>>),
     [i \in 1..16 |-> 7]}

WaveEnded == call = "wave" /\ pc \in {"returned", "raised"}

(* C13: assert_null raises on a buffer with a non-zero byte iff strict is
   true and does nothing on an empty or all-zero buffer; a version 2 or 3
   file that is valid but for a non-zero byte in its 16 padding bytes fails to
   load iff strict is true. *)
C13_PaddingStrictness ==
    /\ \A buffer \in NullCheckBuffers :
          AssertNullRaises(buffer, strict) <=>
              (strict /\ \E i \in 1..Len(buffer) : buffer[i] # 0)
    /\ (WaveEnded /\ input.d.version \in {2, 3} /\ input.d.fault = "padding") =>
          /\ pc = "raised" <=> strict
          /\ pc = "raised" => err = "ValueError:padding"

---------------------------------------------------------------------------
(* Claims about text waves. *)

(* The offsets the 32-bit entries of the string-index table encode. *)
ClaimedOffsets ==
    [ i \in 1..(Len(input.d.sIndices) \div 4) |->
        UnpackInt(input.order, "l", SubSeq(input.d.sIndices, 4 * i - 3, 4 * i)) ]

ClaimedStrings ==
    [ i \in 1..Len(ClaimedOffsets) |->
        SubSeq(input.d.samples, (IF i = 1 THEN 0 ELSE ClaimedOffsets[i - 1]) + 1,
               ClaimedOffsets[i]) ]

(* C14: a version 5 text wave whose table holds the offsets o1 <= ... <= ok
   loads to the array of the k strings bytes[o(i-1):o(i)], o0 = 0, one string
   per table entry. *)
C14_TextWaveDecoding ==
    (WaveEnded /\ input.d.version = 5 /\ input.d.type = 0 /\ input.d.fault = "none") =>
        /\ pc = "returned"
        /\ ret[1].kind = "strings"
        /\ ret[1].strings = ClaimedStrings

---------------------------------------------------------------------------
(* Claims about Structure.pack and Structure.unpack. *)

StructEnded == call = "struct" /\ pc \in {"unpacked", "raised"}

(* The tree with every array as the array of its declared dimensions, the
   missing elements at their default 0. *)
ExpectedTree ==
    TreeOf(input.structure,
           [k \in 1..Len(input.vals) |-> IF k \in input.missing THEN 0 ELSE input.vals[k]],
           0, "ndarray")

(* C15: for a structure of scalar, array, multi-dimensional array and nested
   Structure fields, a value tree that conforms to the shapes of the fields
   and each byte order, unpack(pack(tree)) equals tree. *)
C15_StructureRoundTrip ==
    (StructEnded /\ input.how = "complete") => pc = "unpacked" /\ ret = ExpectedTree

(* C16: when elements of the data of a field are missing (key absent, None,
   a list or a numpy array shorter than the count), pack stores the default
   of the field for each of them, and raises the missing-value error when
   the field has no default; no other error arises. *)
C16_MissingValues ==
    (StructEnded /\ input.missing # {}) =>
        IF input.default = None
        THEN pc = "raised" /\ err = "ValueError:no default"
        ELSE pc = "unpacked" /\ ret = ExpectedTree

---------------------------------------------------------------------------
(* Claims about the Variables record. *)

(* The check of the final offset was reached: every declared section was
   unpacked without error. *)
CheckReached ==
    /\ call = "variables"
    /\ pc \in {"normalize", "decoded", "raised"}
    /\ DOMAIN w.header # {}
    /\ err # "struct.error"

(* C17: once the header, the arrays and every declared user string and
   dependent variable are consumed, decoding fails with the trailing-data
   error iff the final offset differs from the length of the payload; a
   payload that its sections fill exactly does not fail this check. *)
C17_VariablesLengthCheck ==
    CheckReached =>
        /\ (err = "ValueError:too much data") <=> (w.offset # Len(stream))
        /\ input.d.extra = 0 => err # "ValueError:too much data"


(***************************************************************************)
(* C18.  Error kinds                                                       *)
(***************************************************************************)

(* The exception class of a failure: the class named by the raise or assert
   statement (binarywave.py 244, 276, 302; util.py 52; variables.py 164;
   struct.py 187, 216; packed.py 67), or the class Python raises for the
   failing operation (struct.error from struct.unpack, IndexError from
   dir_stack[-1] on an empty list). *)
ExceptionType(e) ==
    CASE e \in {"ValueError:version", "ValueError:checksum", "ValueError:padding",
                "ValueError:too much data", "ValueError:no default",
                "ValueError:not enough data", "ValueError:item",
                "ValueError:reshape", "ValueError:chr",
                "ValueError:negative dimensions"} -> "ValueError"
      [] e \in {"AssertionError:size", "AssertionError:npnts",
                "AssertionError:offset"} -> "AssertionError"
      [] e \in {"KeyError", "KeyError:type", "KeyError:sIndices"} -> "KeyError"
      [] e \in {"TypeError", "TypeError:buffer is too small"} -> "TypeError"
      [] OTHER -> e

(* The nine conditions of the claim, each with the failures the decoder
   raises for it. *)
Failures ==
    [unsupported_version   |-> {"ValueError:version"},
     checksum_failure      |-> {"ValueError:checksum"},
     size_mismatch         |-> {"AssertionError:size"},
     nonzero_padding       |-> {"ValueError:padding"},
     short_buffer          |-> {"struct.error"},
     trailing_data         |-> {"ValueError:too much data"},
     unbalanced_folder_end |-> {"IndexError"},
     unknown_record_type   |-> {"KeyError"},
     missing_pack_value    |-> {"ValueError:no default"}]

(* C18: when load raises for one of the nine conditions (unsupported version,
   checksum failure, size mismatch, non-zero padding under strict, short
   buffer, trailing data in a variables record, unbalanced folder end, unknown
   record type under strict, missing pack value), its exception type is the
   exception type of no other of these conditions. *)
C18_DistinctErrorKinds ==
    (call = "wave" /\ pc = "raised") =>
        \A c1 \in DOMAIN Failures :
            err \in Failures[c1] =>
                \A c2 \in DOMAIN Failures \ {c1} :
                    \A e \in Failures[c2] :
                        ExceptionType(e) # ExceptionType(err)


(***************************************************************************)
(* C19.  Byte-order detection in the packed scan                           *)
(***************************************************************************)

(* Where the header of the i-th record starts in the stream: after the
   headers and the payloads of the records before it. *)
RECURSIVE HeaderOffset(_)
HeaderOffset(i) ==
    IF i = 1 THEN 0
    ELSE HeaderOffset(i - 1) + PackedFileRecordHeaderSize + Len(records[i - 1].data)

HeaderBytes(i) ==
    SubSeq(stream, HeaderOffset(i) + 1, HeaderOffset(i) + PackedFileRecordHeaderSize)

(* The version field of the i-th header read in the platform's order. *)
NativeVersion(i) == UnpackInt(native, "h", SubSeq(HeaderBytes(i), 3, 4))

Detecting == {i \in 1..Len(records) : NativeVersion(i) # 0}

FirstDetecting == CHOOSE i \in Detecting : \A j \in Detecting : i <= j

(* The order the first header with a version fixes: the other order than the
   platform's when the low byte of that version is zero. *)
FixedOrder ==
    IF NativeVersion(FirstDetecting) % 256 = 0 THEN OtherOrder(native) ELSE native

(* C19: in a packed scan the first record header whose version is nonzero
   fixes the byte order (swapped when the low byte of the version is zero, the
   header then being decoded again in the swapped order); every later header is
   decoded in that order and every later record carries it, whatever its
   version; the records before it are decoded in the platform's order and
   carry no byte order.  Between two records the loader's byte order is the
   fixed one, or none before detection. *)
C19_DetectionOnce ==
    call = "packed" =>
        /\ \A i \in 1..Len(records) :
              IF Detecting = {} \/ i < FirstDetecting
              THEN /\ records[i].byte_order = "None"
                   /\ records[i].header = UnpackRecordHeader(native, HeaderBytes(i))
              ELSE /\ records[i].byte_order = FixedOrder
                   /\ records[i].header = UnpackRecordHeader(FixedOrder, HeaderBytes(i))
        /\ pc = "scan" =>
              IF Detecting = {}
              THEN byte_order = "None" /\ initial_byte_order = "="
              ELSE byte_order = FixedOrder /\ initial_byte_order = FixedOrder

(* A swapped file whose second record has a version that, read in the fixed
   order, has a nonzero low byte: deriving the order again from it would give
   the platform's order. *)
C19_Witness ==
    /\ call = "packed"
    /\ Len(records) = 2
    /\ records[1].byte_order = OtherOrder(native)
    /\ records[2].byte_order = OtherOrder(native)
    /\ records[2].header.version % 256 # 0


(***************************************************************************)
(* C20.  The shape of the samples                                          *)
(***************************************************************************)

(* The entries of nDim before its first zero. *)
RECURSIVE Leading(_)
Leading(s) ==
    IF s = <<>> \/ Head(s) = 0 THEN <<>> ELSE <<Head(s)>> \o Leading(Tail(s))

ClaimedShape ==
    IF w.version = 5
    THEN (IF Leading(w.wave_info["nDim"]) = <<>> THEN <<0>>
          ELSE Leading(w.wave_info["nDim"]))
    ELSE <<w.wave_info["npnts"]>>

(* load has unpacked the headers of a wave that is not a text wave. *)
Shaped ==
    /\ call = "wave"
    /\ pc \notin {"open", "probe", "header", "unpack"}
    /\ DOMAIN w.wave_info # {}
    /\ w.wave_info["type"] # 0

(* C20: for a wave that is not a text wave, binarywave.load derives the shape
   of the samples from the entries of nDim before its first zero in version 5,
   (0,) when all of them are zero, and (npnts,) in versions 1, 2 and 3; the
   array it returns has that shape. *)
C20_ShapeDerivation ==
    Shaped =>
        /\ w.shape = ClaimedShape
        /\ pc = "returned" => ret[1].shape = ClaimedShape


(***************************************************************************)
(* C21.  Size validation                                                   *)
(***************************************************************************)

(* The declared data byte count differs from npnts items of the element
   size. *)
SizeMismatch ==
    w.waveDataSize # w.wave_info["npnts"] * ItemSize(w.wave_info["type"])

(* C21: for a wave with a nonzero type code, binarywave.load raises the size
   error when npnts is not 0 and the declared data byte count differs from
   npnts times the element size, and raises no size error when npnts is 0,
   whether or not the type code is in the type table. *)
C21_SizeValidation ==
    Shaped =>
        /\ (w.wave_info["npnts"] # 0 /\ w.wave_info["type"] \in TypeCodes) =>
              (SizeMismatch <=> (pc \in {"finally", "raised"} /\ err = "AssertionError:size"))
        /\ w.wave_info["npnts"] = 0 => err # "AssertionError:size"


(***************************************************************************)
(* C22.  The offsets of the string-index table                             *)
(***************************************************************************)

(* load has split the data of a version 5 text wave, or has failed in it. *)
TextSplit ==
    /\ call = "wave" /\ input.d.version = 5 /\ input.d.type = 0
    /\ input.d.fault = "none"
    /\ pc \in {"finally", "return", "returned", "raised"}

NonDecreasing(offsets) ==
    \A i \in 2..Len(offsets) : offsets[i - 1] <= offsets[i]

(* An offset lower than the one before it and not 0. *)
Inconsistent(offsets) ==
    \E i \in 2..Len(offsets) : offsets[i] < offsets[i - 1] /\ offsets[i] # 0

(* C22: splitting a text wave, load accepts a table whose offsets do not
   decrease (two equal consecutive nonzero offsets included) without the
   offset error, and raises it for an offset lower than the previous one
   unless that offset is 0. *)
C22_TextOffsetRule ==
    TextSplit =>
        /\ NonDecreasing(ClaimedOffsets) => err # "AssertionError:offset"
        /\ Inconsistent(ClaimedOffsets) => err = "AssertionError:offset"


(***************************************************************************)
(* C23.  The shape of a text wave                                          *)
(***************************************************************************)

TextReturned ==
    /\ call = "wave" /\ pc = "returned"
    /\ w.wave_info["type"] = 0
    /\ ret[1].kind = "strings"

(* C23: the data binarywave.load returns for a text wave is the array of the
   decoded strings in the shape of the positive entries of nDim (1 x 2 for
   nDim = [1, 2, 0, 0]), not a flat array. *)
C23_TextWaveShape ==
    TextReturned => ret[1].shape = DimShape(w.wave_info["nDim"])


(***************************************************************************)
(* C24.  The order of the sections after the samples                       *)
(***************************************************************************)

(* The sections the file was written with. *)
WrittenSections ==
    IF "sections" \in DOMAIN input.d THEN input.d.sections ELSE NoSections

(* The sizes the claim lists, from what the file declares. *)
ClaimedReads ==
    CASE input.d.version = 1 -> <<>>
      [] input.d.version = 2 -> <<16, Len(input.d.note)>>
      [] input.d.version = 3 ->
            <<16, Len(input.d.note), Len(WrittenSections.formula)>>
      [] input.d.version = 5 ->
            <<Len(WrittenSections.formula), Len(input.d.note),
              Len(WrittenSections.dataEUnits)>>
            \o [k \in 1..MAXDIMS |-> Len(WrittenSections.dimEUnits[k])]
            \o [k \in 1..MAXDIMS |-> Len(WrittenSections.dimLabels[k])]
            \o (IF input.d.type = 0 THEN <<Len(input.d.sIndices)>> ELSE <<>>)

(* The reads before the sections: the version, the headers, and the samples
   unless npnts is 0. *)
ReadsBefore == IF input.d.npnts = 0 THEN 2 ELSE 3

(* load has read every section after the samples. *)
SectionsRead == call = "wave" /\ pc \in {"text", "returned"}

(* C24: after the sample bytes binarywave.load reads, in this order and each
   with its declared size: nothing in version 1; 16 padding bytes and the note
   in version 2; 16 padding bytes, the note and the formula in version 3; the
   formula, the note, the extended data units, the four extended dimension
   units, the four dimension labels, and the string indices of a text wave
   only, in version 5. *)
C24_TrailerOrder ==
    SectionsRead =>
        /\ Len(reads) = ReadsBefore + Len(ClaimedReads)
        /\ \A k \in 1..Len(ClaimedReads) : reads[ReadsBefore + k][1] = ClaimedReads[k]

(* A version 5 text wave with every section, each of its own length. *)
C24_Witness ==
    /\ SectionsRead /\ pc = "returned"
    /\ input.d.version = 5 /\ input.d.type = 0
    /\ ClaimedReads = <<1, 0, 3, 4, 5, 6, 7, 8, 9, 10, 11, 8>>
    /\ \A k \in 1..Len(ClaimedReads) : reads[ReadsBefore + k] = <<ClaimedReads[k], ClaimedReads[k]>>
    /\ ret[2]["dimLabels"][1] = << <<65, 66>>, <<68, 69, 70, 71, 72>> >>


(***************************************************************************)
(* C25.  Structure.unpack_from on a short buffer                           *)
(***************************************************************************)

(* load has unpacked the headers from a buffer shorter than the two
   structures: the wave header lacks bytes of wData. *)
ShortWaveHeader ==
    /\ call = "wave"
    /\ pc \notin {"open", "probe", "header", "unpack"}
    /\ DOMAIN w.bin_info # {}
    /\ Len(w.b) < BinSize(w.version) + WaveSize(w.version)

(* The wave header of the buffer filled up with zeros. *)
PaddedWaveInfo ==
    UnpackDict(w.byteOrder, Layout(WaveStructName(w.version)),
               w.b \o Zeros(BinSize(w.version) + WaveSize(w.version) - Len(w.b)),
               BinSize(w.version))

(* The scan has read a record header of fewer bytes than the structure. *)
ShortRecordHeader ==
    /\ call = "packed"
    /\ pc \notin {"open", "scan"}
    /\ Len(reads) % 2 = 1
    /\ reads[Len(reads)][2] \in 1..(PackedFileRecordHeaderSize - 1)

(* C25: on a buffer shorter than the structure, unpack_from of a structure
   other than WaveHeader2 and WaveHeader5 raises the short-buffer error; for
   WaveHeader2 and WaveHeader5 the buffer is filled up with zeros and unpacked
   again, the result is returned when its npnts is 0, and when npnts is not 0
   the caller gets the short-buffer error as well. *)
C25_ZeroPointRecovery ==
    /\ ShortRecordHeader => err = "struct.error"
    /\ ShortWaveHeader =>
          IF PaddedWaveInfo["npnts"] = 0
          THEN w.wave_info = PaddedWaveInfo /\ err # "struct.error"
          ELSE pc \in {"finally", "raised"} /\ err = "struct.error"


(***************************************************************************)
(* C26.  Version 2 Variables records                                       *)
(***************************************************************************)

(* The constructor of VariablesRecord returned or raised. *)
VarsEnded == call = "variables" /\ pc \in {"decoded", "raised"}

(* C26: the construction of a VariablesRecord from a version 2 payload
   raises; from a payload whose sections fill it exactly it raises
   NotImplementedError in _normalize_variables, after the fixed and the
   variable-length sections were unpacked to the end of the payload; a
   version 1 payload never raises NotImplementedError. *)
C26_Version2NotImplemented ==
    VarsEnded =>
        /\ input.d.version = 2 => pc = "raised"
        /\ (input.d.version = 2 /\ input.d.extra = 0) =>
              /\ err = "NotImplementedError"
              /\ DOMAIN w.header # {} /\ w.offset = Len(stream)
        /\ input.d.version = 1 => err # "NotImplementedError"


(***************************************************************************)
(* C27.  Every Wave and Variables record is in the tree                    *)
(***************************************************************************)

(* The path of the innermost open folder when the i-th record is met. *)
RECURSIVE OpenAt(_)
OpenAt(i) ==
    IF i = 1 THEN <<ROOT>>
    ELSE LET r == records[i - 1]
             open == OpenAt(i - 1)
         IN  CASE r.cls = "FolderStartRecord" -> Append(open, NullTerminatedText(r.data))
               [] r.cls = "FolderEndRecord" -> SubSeq(open, 1, Len(open) - 1)
               [] OTHER -> open

(* The lists of the tree that hold the i-th record, and how often a list
   holds it. *)
ListsHolding(tree, i) ==
    {p \in DOMAIN tree : tree[p].kind = "list"
                         /\ \E k \in 1..Len(tree[p].items) : tree[p].items[k] = i}

Occurrences(items, i) == Cardinality({k \in 1..Len(items) : items[k] = i})

(* No folder of the sequence is named by one of the two reserved keys. *)
PlainNames ==
    \A i \in 1..Len(records) :
        records[i].cls = "FolderStartRecord" =>
            NullTerminatedText(records[i].data) \notin {WAVES_KEY, VARIABLES_KEY}

(* C27: for a record sequence in which the FolderEnd records never outnumber
   the FolderStart records before them, the load returns a tree that holds
   every Wave and every Variables record exactly once, in the ':waves' or
   ':variables' list of the folder that was the innermost open one when the
   record was met, also when two FolderStart records under one parent have
   the same name. *)
C27_RecordConservation ==
    (call = "packed" /\ TreeEnded /\ Balanced(records) /\ PlainNames) =>
        /\ pc = "returned"
        /\ \A i \in 1..Len(records) :
              records[i].cls \in {"WaveRecord", "VariablesRecord"} =>
                  LET key == IF records[i].cls = "WaveRecord" THEN WAVES_KEY
                             ELSE VARIABLES_KEY
                      home == Append(OpenAt(i), key)
                  IN  /\ ListsHolding(ret[2], i) = {home}
                      /\ Occurrences(ret[2][home].items, i) = 1


(***************************************************************************)
(* C28.  The sizes of the reads                                            *)
(***************************************************************************)

(* The sample read of the load, if it was issued: the third read. *)
SampleRead == reads[3]

SamplesWereRead ==
    /\ call = "wave" /\ Len(reads) >= 3
    /\ DOMAIN w.wave_info # {} /\ w.wave_info["npnts"] # 0

(* C28: every read binarywave.load issues asks for a number of bytes that is
   not negative; the sample read asks for the data byte count less the tail
   kept in the wave header; and a wave with npnts > 0 whose data byte count is
   below the tail still has its note decoded from the bytes of its declared
   size. *)
C28_BoundedSampleRead ==
    call = "wave" =>
        /\ \A k \in 1..Len(reads) : reads[k][1] >= 0
        /\ SamplesWereRead => SampleRead[1] = w.waveDataSize - TailSize(w.version)
        /\ (pc = "returned" /\ input.d.fault = "none" /\ "note" \in DOMAIN ret[2]) =>
              ret[2]["note"] = Strip(input.d.note)


(***************************************************************************)
(* C29.  The byte order of a Variables record                              *)
(***************************************************************************)

(* The constructor has unpacked the header of the version. *)
HeaderDecoded == call = "variables" /\ pc # "vars" /\ DOMAIN w.header # {}

(* C29: a VariablesRecord decodes the counts of its header in the byte order
   of the record (the one the loader passed, or the one derived from the
   version field): written in the platform's order or in the other one, a
   record decodes to the counts it was written with. *)
C29_VariablesByteOrder ==
    HeaderDecoded =>
        /\ w.byte_order = input.order
        /\ w.header["numSysVars"] = input.d.numSysVars
        /\ w.header["numUserVars"] = input.d.numUserVars
        /\ w.header["numUserStrs"] = Len(input.d.strs)
        /\ input.d.version = 2 =>
              /\ w.header["numDependentVars"] = Len(input.d.depVars)
              /\ w.header["numDependentStrs"] = Len(input.d.depStrs)


(***************************************************************************)
(* C30.  The shared layouts and the history of the process                 *)
(***************************************************************************)

(* The call made in a fresh process has ended. *)
FreshEnded ==
    /\ call \in {"wave", "packed"}
    /\ "stage" \in DOMAIN input /\ input.stage = "fresh"
    /\ Ended

(* C30: the module-level layouts keep the byte order the last decode set, yet
   a call of binarywave.load or packed.load made after another call, of either
   loader, on a file of either byte order, failed or not, ends as the same
   call made first in a fresh process; and set_byte_order(o) leaves every
   layout in the order o. *)
C30_HistoryIndependence ==
    /\ FreshEnded => Outcome = input.first
    /\ \A name \in StructNames : \A o \in {"=", "<", ">"} :
          SetByteOrder(structOrder, name, o)[name] = o

(* A wave in the platform's order loaded after a call that left the layout
   of its wave header in the other order. *)
C30_Witness ==
    /\ FreshEnded /\ call = "wave" /\ pc = "returned"
    /\ input.order = native /\ input.d.version = 5 /\ input.d.type = 4
    /\ input.left["WaveHeader5"] = OtherOrder(native)
    /\ input.left["BinHeaderCommon"] = OtherOrder(native)
    /\ input.first.pc = "returned"
    /\ ArrayValues(ret[1]) = << <<1, 2, 3, 4, 5, 6, 7, 8>>, <<9, 10, 11, 12, 13, 14, 15, 16>> >>

====
